---- MODULE Spec2Model ----
(***************************************************************************)
(* Orchestrator subsystem of pi-messenger: the spawned-agent registry      *)
(* (crew/orchestrator/registry), the lifecycle handlers                    *)
(* (crew/handlers/orchestrator.ts) and the processes and mesh              *)
(* registrations they act on; and the agent memory store                   *)
(* (crew/orchestrator/embedding.ts), under its own specifications:         *)
(* SpecMemory (remember, recall, the embedding circuit breaker),           *)
(* SpecEviction and SpecRecall (the collection: capacity eviction and the  *)
(* token budget of a recall) and SpecInitMemory (opening the store, schema *)
(* validation and self-healing).  The messenger's own store (store.ts) has *)
(* three more: SpecRegister (two processes registering under one name),    *)
(* SpecInbox (processAllPendingMessages and its guard) and SpecWatcher     *)
(* (the inbox watcher's retries and recovery).                             *)
(*                                                                         *)
(* Granularity.  A handler is cut at its awaits that wait for a timer or   *)
(* for I/O (sleep, waitForProcessExit, waitForMeshJoin, recall, remember): *)
(* the code between two such awaits runs to completion on the event loop   *)
(* and is one action.  agents.done runs in the worker's own process, so    *)
(* its steps stop when that process dies.                                  *)
(* Time is counted in units of 1000 ms.  The record's fields that no       *)
(* handler branches on (model, workstream, counters, timestamps) are left  *)
(* out.                                                                    *)
(***************************************************************************)
EXTENDS Naturals, Integers, FiniteSets, Sequences, TLC

\* ---------------------------------------------------------------- bounds
MaxPid == 2
MaxTime == 2
MaxSpawnOps == 1
MaxKillOps == 1
MaxKillallOps == 2
MaxAssignOps == 1
MaxDoneOps == 1
MaxCalls == 3
MaxBorn == 1
MaxMemOps == 2
MaxMemCalls == 6
MaxMemNow == 90
MemTickStep == 30
maxEntries == 5
MaxInserts == 6
autoInjectTopK == 3

\* ------------------------------------------------------ program constants
\* resolveSpawnName: for (let i = 0; i < 5; i++)
NameAttempts == 5
\* waitForMeshJoin: stats.mtimeMs >= (minRegistryMtimeMs - 1000), in units of 1000 ms
MtimeSlack == 1
\* lib.ts: export const MAX_WATCHER_RETRIES = 5
MAX_WATCHER_RETRIES == 5
\* The watcher's clock: its last value and its step, in milliseconds.
MaxWatchClock == 16000
WatchTick == 1000
\* Messages written into the inbox, and calls of processAllPendingMessages.
MaxMsgs == 3
MaxProcessCalls == 4
\* register: const maxAttempts = isExplicitName ? 1 : 3
RegisterAttempts == 3
\* const CIRCUIT_BREAKER_FAILURES = 3
CIRCUIT_BREAKER_FAILURES == 3
\* const CIRCUIT_BREAKER_COOLDOWN_MS = 60_000, in units of 1000 ms
CIRCUIT_BREAKER_COOLDOWN_MS == 60
\* const MAX_AGENT_SHARE = 0.4, in percent
MAX_AGENT_SHARE == 40
Names == {"a", "b"}
NoName == "-"
\* process ids; pid 1 is init and is never a worker
Pids == {p + 1 : p \in 1..MaxPid}
\* assignedTask: the task ids, and null
Tasks == {"t1"}
Null == "null"

Statuses == {"spawning", "joined", "idle", "assigned", "done", "dead"}

\* VALID_TRANSITIONS
VALID_TRANSITIONS ==
  [s \in Statuses |->
     CASE s = "spawning" -> {"joined", "dead"}
       [] s = "joined"   -> {"idle", "dead"}
       [] s = "idle"     -> {"assigned", "done", "dead"}
       [] s = "assigned" -> {"idle", "done", "dead"}
       [] s = "done"     -> {"dead"}
       [] s = "dead"     -> {}]

\* canTransition without its same-state rule
canTransitionTableOnly(from, to) == to \in VALID_TRANSITIONS[from]

\* canTransition(from, to)
canTransition(from, to) ==
  IF from = to THEN TRUE ELSE to \in VALID_TRANSITIONS[from]

\* A SpawnedAgent record file; NoRec is "no file".
NoRec == [st |-> "none", task |-> Null, pid |-> 0, sid |-> 0]
NoReg == [pid |-> 0, sid |-> 0, mtime |-> 0]
FreeProc == [st |-> "free", par |-> 0, nm |-> NoName, kind |-> "none"]

VARIABLES
  rec,       \* agents directory: name -> record or NoRec
  mesh,      \* mesh registry directory: name -> registration or NoReg
  procs,     \* operating-system processes: pid -> state
  closeq,    \* names whose headless child has exited, 'close' not yet handled
  now,       \* Date.now()
  sp,        \* executeSpawn invocations
  kl,        \* killOne invocations
  asg,       \* executeAgentsAssign invocations
  dn,        \* executeAgentsDone invocations
  calls,     \* handler invocations so far
  born,      \* processes started by others than executeSpawn so far
  cap,       \* config.orchestrator.maxSpawnedAgents
  ret,       \* the handler that ended last: its answer and the signals it sent
  fx,        \* the handler or sweep that ended last: the history events it
             \* appended, the messages it sent to agents, its remember() calls
             \* and its cleanupTmux calls, as <<kind, agent name>>
  tr,        \* the last transitionState call made directly (registry API)
  store,     \* the MemoryStore object: breaker fields, and its collection as
             \* the number of entries stored per contentHash
  mem,       \* remember() and recall() invocations
  obs,       \* observed: when markEmbeddingFailure last opened the breaker
             \* (-1: never), and the last embedding outcomes, oldest first
  coll,      \* the documents of the memory collection, how many the last
             \* insert evicted, and what the last recall was given and returned
  ka,        \* the executeAgentsKillall invocation: the targets it has still to kill
  boot,      \* the last initMemory call: what it was given, and the store, the disk and the answer it ended with
  mr,        \* mesh registration by register(): the registry files (the pid written, 0: no file) and each registering agent's position, name and attempt
  ib,        \* one agent's inbox and processAllPendingMessages: files in the inbox, messages sent, isProcessingMessages, pendingProcessArgs, the running calls
  wt         \* the inbox watcher: state.watcher, state.watcherRetries, state.watcherRetryTimer, the clock

vars == <<rec, mesh, procs, closeq, now, sp, kl, asg, dn, calls, born, cap, ret, fx, tr,
          store, mem, obs, coll, ka, boot, mr, ib, wt>>

\* The texts handed to remember() and recall(), and what String.trim makes
\* of them.
Texts == {"", "x", " x", "y"}
trim(text) == IF text = " x" THEN "x" ELSE text

\* contentHash(text): sha256, taken as free of collisions
contentHash(text) == <<"sha256", text>>
Hashes == {contentHash(trim(t)) : t \in {u \in Texts : trim(u) # ""}}

\* The documents of the collection: the fields evictIfNeeded and recall read.
\* A text is kept as its length in characters; createdAtMs is the rank of
\* the insert (the clock moves between two inserts).
MemoryAgents == {"alice", "bob", "carol"}
TextLengths == {3, 8}

\* The collection directory with the metadata file inside it: absent, or
\* holding a collection of some vector dimension, a metadata file and documents.
NoDisk == [dir |-> FALSE, dim |-> "-", meta |-> "absent", docs |-> "none"]
NotBooted ==
  [pc |-> "none", disk0 |-> NoDisk, disk |-> NoDisk, backups |-> 0,
   env |-> [enabled |-> FALSE, runtime |-> FALSE, open |-> "ok", health |-> "ok",
            backup |-> "ok", open2 |-> "ok", health2 |-> "ok"],
   threw |-> FALSE, active |-> FALSE, enabled |-> FALSE, degraded |-> FALSE,
   reason |-> "-", collection |-> FALSE, answer |-> "-"]

MemIds == 1..MaxMemOps
IdleMem == [pc |-> "idle", kind |-> "-", hash |-> <<"sha256", "-">>]

SpawnIds == 1..MaxSpawnOps
KillIds == 1..MaxKillOps
\* the killOne runs of executeAgentsKillall have their own slots
KillallIds == (MaxKillOps + 1)..(MaxKillOps + MaxKillallOps)
AssignIds == 1..MaxAssignOps
DoneIds == 1..MaxDoneOps

\* isPidAlive(pid)
isPidAlive(pid) == pid \in Pids /\ procs[pid].st = "alive"

\* isDescendantPid(pid, ancestorPid): the loop of at most 32 parent look-ups
RECURSIVE descendLoop(_, _, _)
descendLoop(current, ancestorPid, depth) ==
  \* readParentPid(pid): null (0) when ps fails
  LET readParentPid(pid) == IF isPidAlive(pid) THEN procs[pid].par ELSE 0
  IN
  IF depth = 0 THEN FALSE
  ELSE LET parent == readParentPid(current) IN
       IF parent = 0 \/ parent <= 1 THEN FALSE
       ELSE IF parent = ancestorPid THEN TRUE
       ELSE IF parent = current THEN FALSE
       ELSE descendLoop(parent, ancestorPid, depth - 1)

\* pidMatchesExpectation that takes any pid
anyPidMatches(meshPid, expectedPid) == TRUE

\* pidMatchesExpectation(meshPid, expectedPid)
pidMatchesExpectation(meshPid, expectedPid) ==
  \* resolvePidRelation(meshPid, expectedPid)
  LET resolvePidRelation ==
        LET isDescendantPid(pid, ancestorPid) ==
              IF pid <= 0 \/ ancestorPid <= 0 THEN FALSE
              ELSE IF pid = ancestorPid THEN TRUE
              ELSE descendLoop(pid, ancestorPid, 32)
        IN
        IF meshPid = 0 THEN "none"
        ELSE IF expectedPid = 0 THEN "none"
        ELSE IF meshPid = expectedPid THEN "exact"
        ELSE IF isDescendantPid(meshPid, expectedPid) THEN "descendant"
        ELSE "mismatch"
  IN
  IF expectedPid <= 0 THEN TRUE
  ELSE resolvePidRelation \in {"exact", "descendant"}

\* waitForMeshJoin: the test one poll makes on the registration it read
joinAccepted(reg, expectedPid, minRegistryMtime) ==
  \* waitForMeshJoin: freshEnough
  LET freshEnough == reg.mtime >= minRegistryMtime - MtimeSlack
  IN
  /\ reg # NoReg
  /\ reg.pid # 0 /\ isPidAlive(reg.pid)
  /\ pidMatchesExpectation(reg.pid, expectedPid)
  /\ freshEnough

\* hasNameCollision that looks at the local records only
hasLocalCollision(name) == rec[name] # NoRec /\ rec[name].st # "dead"

\* hasNameCollision(name, dirs, cwd)
hasNameCollision(name) ==
  \/ rec[name] # NoRec /\ rec[name].st # "dead"
  \/ mesh[name] # NoReg /\ isPidAlive(mesh[name].pid)

\* resolveSpawnName: the loop over generateMemorableName() draws
RECURSIVE firstFree(_, _)
firstFree(draws, i) ==
  IF i > NameAttempts THEN NoName
  ELSE IF ~hasNameCollision(draws[i]) THEN draws[i]
  ELSE firstFree(draws, i + 1)

\* transitionState(name, to): the record it leaves in the file
transitionRecord(current, to) ==
  IF current = NoRec THEN current
  ELSE IF ~canTransition(current.st, to) THEN current
  ELSE IF to = "dead" THEN [current EXCEPT !.st = to, !.task = Null]
  ELSE [current EXCEPT !.st = to]

\* transitionState(name, "dead") with no unregisterSpawned(name) after it
deadLeftStored(name) == [rec EXCEPT ![name] = transitionRecord(rec[name], "dead")]

\* transitionState(name, "dead") followed by unregisterSpawned(name)
deadAndUnregister(name) == [rec EXCEPT ![name] = NoRec]

\* a shouldReap that probes the pid only
shouldReapPidOnly(agent, name) ==
  IF ~isPidAlive(agent.pid) THEN "pid_exited" ELSE "none"

\* shouldReap(agent): null is "none"
shouldReap(agent, name) ==
  IF ~isPidAlive(agent.pid) THEN "pid_exited"
  ELSE IF mesh[name] = NoReg THEN "mesh_missing"
  ELSE IF mesh[name].pid # agent.pid THEN "mesh_pid_mismatch"
  ELSE "none"

\* ------------------------------------------------------------- processes
\* The process table after process p has died: its children are re-parented
\* to init, so ps no longer reports p as their parent.
procsAfterDeath(p) ==
  [q \in Pids |->
     IF q = p THEN FreeProc
     ELSE IF procs[q].par = p THEN [procs[q] EXCEPT !.par = 0]
     ELSE procs[q]]

\* proc.on("close", ...) becomes pending when a headless child dies
closeqAfterDeath(p) ==
  IF procs[p].kind = "headless" THEN closeq \cup {procs[p].nm} ELSE closeq

IdleSpawn == [pc |-> "idle", name |-> NoName, pid |-> 0, at |-> 0]
IdleKill == [pc |-> "idle", name |-> NoName, pid |-> 0, proc |-> 0, fx |-> {}]
IdleAssign == [pc |-> "idle", name |-> NoName, agent |-> NoRec, latest |-> NoRec]
IdleDone == [pc |-> "idle", name |-> NoName, agent |-> NoRec, proc |-> 0,
             auto |-> FALSE, fx |-> {}]

\* A handler running inside process p stops with it.
opsAfterDeath(ops, p, idle) ==
  [i \in DOMAIN ops |->
     IF ops[i].pc # "idle" /\ ops[i].proc = p THEN idle ELSE ops[i]]

\* A new invocation takes the lowest free slot (the slots are interchangeable).
FreeSlot(ops, i) ==
  /\ ops[i].pc = "idle"
  /\ \A j \in DOMAIN ops : j < i => ops[j].pc # "idle"

\* A tool call arrives.
Call == calls < MaxCalls /\ calls' = calls + 1

\* What a handler answered, and the signals it had sent by then.
Answer(op, res, sig) == [op |-> op, res |-> res, sig |-> sig]

InitStore ==
  /\ rec = [n \in Names |-> NoRec]
  /\ mesh = [n \in Names |-> NoReg]
  /\ procs = [p \in Pids |-> FreeProc]
  /\ closeq = {}
  /\ now = 0
  /\ sp = [i \in SpawnIds |-> IdleSpawn]
  /\ kl = [i \in KillIds \cup KillallIds |-> IdleKill]
  /\ asg = [i \in 1..(MaxAssignOps + 1) |-> IdleAssign]
  /\ dn = [i \in DoneIds |-> IdleDone]
  /\ calls = 0
  /\ born = 0
  /\ ret = Answer("-", "-", "none")
  /\ fx = {}
  /\ tr = [name |-> NoName, to |-> "dead", from |-> "none", ok |-> FALSE]
  \* createMemoryStore: an enabled store with an open, empty collection
  /\ store = [consecutiveEmbeddingFailures |-> 0, breakerOpenUntil |-> 0,
              collection |-> [h \in Hashes |-> 0]]
  /\ mem = [m \in MemIds |-> IdleMem]
  /\ obs = [opened |-> -1, outcomes |-> <<>>]
  /\ coll = [docs |-> {}, next |-> 1, evicted |-> 0, maxTokens |-> 0,
             results |-> <<>>]
  /\ ka = [pc |-> "idle", todo |-> <<>>]
  /\ boot = NotBooted
  /\ mr = [files |-> [n \in {"n", "n2", "n3"} |-> 0],
           ag |-> [p \in {1, 2} |-> [pc |-> "idle", name |-> "n", attempt |-> 0,
                                     explicit |-> FALSE, registered |-> FALSE]]]
  /\ ib = [files |-> {}, sent |-> 0, busy |-> FALSE, pending |-> FALSE,
           stack |-> <<>>, calls |-> 0, handed |-> [m \in 1..MaxMsgs |-> 0],
           delivered |-> {}, owed |-> {}, byRerun |-> {}]
  /\ wt = [registered |-> FALSE, watcher |-> FALSE, retries |-> 0, timer |-> 0,
           delay |-> 0, clock |-> 0, by |-> "-", revived |-> FALSE]

\* One worker at a time: maxSpawnedAgents = 1.
Init == InitStore /\ cap = 1

\* Two workers side by side: maxSpawnedAgents = 2.
InitHandshake == InitStore /\ cap = 2

\* ----------------------------------------------------------- environment
\* Date.now() advances.
Tick ==
  /\ now < MaxTime
  /\ now' = now + 1
  /\ UNCHANGED <<rec, mesh, procs, closeq, sp, kl, asg, dn, calls, born, cap, ret, fx, tr, store, mem, obs, coll, ka, boot, mr, ib, wt>>

\* A process exits on its own (also: in answer to SHUTDOWN or SIGTERM).
ProcExit(p) ==
  /\ isPidAlive(p)
  /\ procs' = procsAfterDeath(p)
  /\ closeq' = closeqAfterDeath(p)
  /\ dn' = opsAfterDeath(dn, p, IdleDone)
  /\ kl' = opsAfterDeath(kl, p, IdleKill)
  /\ UNCHANGED <<rec, mesh, now, sp, asg, calls, born, cap, ret, fx, tr, store, mem, obs, coll, ka, boot, mr, ib, wt>>

\* store.register with PI_AGENT_NAME set: refused when the name's registration
\* belongs to another live pid, otherwise the file is rewritten with process.pid.
meshRegisterAllowed(n, q) ==
  \/ mesh[n] = NoReg
  \/ ~isPidAlive(mesh[n].pid)
  \/ mesh[n].pid = q

\* The spawned worker p joins the mesh itself.
WorkerRegister(p) ==
  /\ isPidAlive(p)
  /\ procs[p].kind \in {"tmux", "headless", "child"}
  /\ LET n == procs[p].nm IN
     /\ meshRegisterAllowed(n, p)
     /\ mesh[n] = NoReg \/ mesh[n].pid # p
     /\ mesh' = [mesh EXCEPT ![n] = [pid |-> p, sid |-> p, mtime |-> now]]
  /\ UNCHANGED <<rec, procs, closeq, now, sp, kl, asg, dn, calls, born, cap, ret, fx, tr, store, mem, obs, coll, ka, boot, mr, ib, wt>>

\* The spawned command p (the pane's shell, a wrapper) starts the agent as a
\* child process c, which inherits PI_AGENT_NAME.
WorkerFork(p, c) ==
  /\ born < MaxBorn /\ born' = born + 1
  /\ isPidAlive(p)
  /\ procs[p].kind \in {"tmux", "headless"}
  /\ ~isPidAlive(c)
  /\ \A q \in Pids : ~(isPidAlive(q) /\ procs[q].par = p)
  /\ procs' = [procs EXCEPT ![c] = [st |-> "alive", par |-> p,
                                    nm |-> procs[p].nm, kind |-> "child"]]
  /\ UNCHANGED <<rec, mesh, closeq, now, sp, kl, asg, dn, calls, cap, ret, fx, tr, store, mem, obs, coll, ka, boot, mr, ib, wt>>

\* An agent that this orchestrator did not spawn joins the mesh as n.
ForeignJoin(n, f) ==
  /\ born < MaxBorn /\ born' = born + 1
  /\ ~isPidAlive(f)
  /\ \A q \in Pids : ~(isPidAlive(q) /\ procs[q].kind = "foreign")
  /\ meshRegisterAllowed(n, f)
  /\ procs' = [procs EXCEPT ![f] = [st |-> "alive", par |-> 0,
                                    nm |-> n, kind |-> "foreign"]]
  /\ mesh' = [mesh EXCEPT ![n] = [pid |-> f, sid |-> f, mtime |-> now]]
  /\ UNCHANGED <<rec, closeq, now, sp, kl, asg, dn, calls, cap, ret, fx, tr, store, mem, obs, coll, ka, boot, mr, ib, wt>>

\* ------------------------------------------------- memory in the handlers
\* How the memory subsystem behaves during one handler, with memory enabled
\* in the configuration: it works, initMemory throws, the store is degraded,
\* the embedding fails, or the insert fails.
MemoryOutcomes == {"works", "init_throws", "degraded", "embed_fails", "insert_fails"}

ensureMemoryUncaught(m) ==
  IF m = "init_throws" THEN "threw" ELSE IF m = "degraded" THEN "degraded" ELSE "store"

\* ensureMemory: try { return await initMemory(...) } catch { return null }
ensureMemory(m) ==
  IF m = "init_throws" THEN "null" ELSE IF m = "degraded" THEN "degraded" ELSE "store"

\* The memory section of a handler: "skipped" without a usable store (and
\* with memory disabled), "failed" when remember or recall answers a degraded
\* result, "done" when it worked, "threw" when an error leaves the section.
\* executeSpawn, executeAgentsAssign and executeAgentsDone wrap the section
\* in try/catch; captureKillSummaryIfNeeded does not.
memoryCall(handler, m) ==
  IF m = "disabled" THEN "skipped"
  ELSE IF ensureMemory(m) = "threw"
  THEN IF handler = "kill" THEN "threw" ELSE "skipped"
  ELSE IF ensureMemory(m) # "store" THEN "skipped"
  ELSE IF m \in {"embed_fails", "insert_fails"} THEN "failed"
  ELSE "done"

\* ------------------------------------------------------------ executeSpawn
\* an active count of the agents without a task
activeCountUnassigned ==
  Cardinality({n \in Names : rec[n] # NoRec /\ rec[n].st \notin {"dead", "assigned"}})

activeCount == Cardinality({n \in Names : rec[n] # NoRec /\ rec[n].st # "dead"})

\* if (active.length >= config.orchestrator.maxSpawnedAgents)
SpawnLimit(i) ==
  /\ Call
  /\ FreeSlot(sp, i)
  /\ activeCount >= cap
  /\ ret' = Answer("spawn", "limit_reached", "none")
  /\ fx' = {}
  /\ UNCHANGED <<rec, mesh, procs, closeq, now, sp, kl, asg, dn, born, cap, tr, store, mem, obs, coll, ka, boot, mr, ib, wt>>

\* The names resolveSpawnName can return over every requested name (or none)
\* and every run of generateMemorableName() draws; NoName is null.
resolvedNames ==
  \* resolveSpawnName(requested, dirs, cwd); NoName is null
  LET resolveSpawnName(requested, draws) ==
        IF requested # NoName /\ ~hasNameCollision(requested) THEN requested
        ELSE firstFree(draws, 1)
  IN
  {resolveSpawnName(requested, draws) :
     requested \in Names \cup {NoName}, draws \in [1..NameAttempts -> Names]}

\* if (!name): name generation exhausted
SpawnNameCollision(i) ==
  /\ Call
  /\ FreeSlot(sp, i)
  /\ activeCount < cap
  /\ NoName \in resolvedNames
  /\ ret' = Answer("spawn", "name_collision", "none")
  /\ fx' = {}
  /\ UNCHANGED <<rec, mesh, procs, closeq, now, sp, kl, asg, dn, born, cap, tr, store, mem, obs, coll, ka, boot, mr, ib, wt>>

\* tmux new-window throws
SpawnTmuxFailed(i) ==
  /\ Call
  /\ FreeSlot(sp, i)
  /\ activeCount < cap
  /\ resolvedNames # {NoName}
  /\ ret' = Answer("spawn", "tmux_spawn_failed", "none")
  /\ fx' = {}
  /\ UNCHANGED <<rec, mesh, procs, closeq, now, sp, kl, asg, dn, born, cap, tr, store, mem, obs, coll, ka, boot, mr, ib, wt>>

\* The process is started under the resolved name, the record is registered
\* as spawning, and the handshake begins.
SpawnLaunch(i, name, backend, p) ==
  \* registerSpawned({ name, pid, sessionId: "", status: "spawning", ... })
  LET spawningRecord(pid) ==
        [st |-> "spawning", task |-> Null, pid |-> pid, sid |-> 0]
  IN
  /\ Call
  /\ FreeSlot(sp, i)
  /\ activeCount < cap
  /\ ~isPidAlive(p)
  /\ name \in resolvedNames \ {NoName}
  /\ procs' = [procs EXCEPT ![p] = [st |-> "alive", par |-> 0,
                                    nm |-> name, kind |-> backend]]
  /\ rec' = [rec EXCEPT ![name] = spawningRecord(p)]
  /\ sp' = [sp EXCEPT ![i] = [pc |-> "handshake", name |-> name,
                              pid |-> p, at |-> now]]
  /\ UNCHANGED <<mesh, closeq, now, kl, asg, dn, born, cap, ret, fx, tr, store, mem, obs, coll, ka, boot, mr, ib, wt>>

\* if (current) registerSpawned({...current, pid, sessionId, status: "joined"})
joinedRecord(current, joined) ==
  [current EXCEPT !.pid = joined.pid, !.sid = joined.sid, !.st = "joined"]

\* waitForMeshJoin returns the registration a poll accepted; the record, if
\* there is one, is written as joined and then moved to idle.
SpawnAccept(i) ==
  \* if (current) { registerSpawned(... "joined"); transitionState(name, "idle") }
  LET acceptedRecord(current, joined) ==
        IF current # NoRec
        THEN transitionRecord(joinedRecord(current, joined), "idle")
        ELSE current
  IN
  /\ sp[i].pc = "handshake"
  /\ joinAccepted(mesh[sp[i].name], sp[i].pid, sp[i].at)
  /\ rec' = [rec EXCEPT ![sp[i].name] = acceptedRecord(@, mesh[sp[i].name])]
  /\ sp' = [sp EXCEPT ![i].pc = "bootstrap"]
  /\ UNCHANGED <<mesh, procs, closeq, now, kl, asg, dn, calls, born, cap, ret, fx, tr, store, mem, obs, coll, ka, boot, mr, ib, wt>>

\* The same, when the write of transitionState(name, "idle") throws (the
\* rename fails): the record stays joined and executeSpawn rejects.
SpawnAcceptWriteFailed(i) ==
  /\ sp[i].pc = "handshake"
  /\ joinAccepted(mesh[sp[i].name], sp[i].pid, sp[i].at)
  /\ rec[sp[i].name] # NoRec
  /\ rec' = [rec EXCEPT ![sp[i].name] = joinedRecord(@, mesh[sp[i].name])]
  /\ sp' = [sp EXCEPT ![i] = IdleSpawn]
  /\ ret' = Answer("spawn", "threw", "none")
  /\ fx' = {}
  /\ UNCHANGED <<mesh, procs, closeq, now, kl, asg, dn, calls, born, cap, tr, store, mem, obs, coll, ka, boot, mr, ib, wt>>

\* after await maybeBootstrapMemory: return result("... Status: idle.")
SpawnReturnOk(i, m) ==
  /\ sp[i].pc = "bootstrap"
  /\ sp' = [sp EXCEPT ![i] = IdleSpawn]
  /\ ret' = Answer("spawn", IF memoryCall("spawn", m) = "threw" THEN "threw" ELSE "ok",
                   "none")
  /\ fx' = IF memoryCall("spawn", m) = "threw" THEN {}
           ELSE {<<"history:spawn", sp[i].name>>}
  /\ UNCHANGED <<rec, mesh, procs, closeq, now, kl, asg, dn, calls, born, cap, tr, store, mem, obs, coll, ka, boot, mr, ib, wt>>

\* waitForMeshJoin ran out of time: safeKill(pid, "SIGTERM"), then wait 2500 ms
SpawnTimeout(i) ==
  /\ sp[i].pc = "handshake"
  /\ sp' = [sp EXCEPT ![i].pc = "tmo_wait"]
  /\ UNCHANGED <<rec, mesh, procs, closeq, now, kl, asg, dn, calls, born, cap, ret, fx, tr, store, mem, obs, coll, ka, boot, mr, ib, wt>>

\* a timeout path that stops at SIGTERM
timeoutNeverSigkill(exitedAfterSigterm) == FALSE

\* Whether the timeout path escalates to SIGKILL.
timeoutNeedsSigkill(exitedAfterSigterm) == ~exitedAfterSigterm

\* SIGKILL if still alive, remove the record, return spawn_timeout.
SpawnTimeoutCleanup(i) ==
  \* The timeout path's cleanupTmuxPane(existing) and its "reap" history event.
  LET timeoutEffects(name) ==
        {<<"history:reap", name>>}
          \cup (IF rec[name] # NoRec THEN {<<"cleanup", name>>} ELSE {})
  IN
  \* The record store after the timeout path's cleanup of `name`.
  LET timeoutCleanupRec(name) ==
        IF rec[name] # NoRec THEN deadAndUnregister(name) ELSE rec
  IN
  /\ sp[i].pc = "tmo_wait"
  /\ LET name == sp[i].name
         pid == sp[i].pid
         sigkill == timeoutNeedsSigkill(~isPidAlive(pid))
         dies == sigkill /\ isPidAlive(pid) IN
     /\ procs' = IF dies THEN procsAfterDeath(pid) ELSE procs
     /\ closeq' = IF dies THEN closeqAfterDeath(pid) ELSE closeq
     /\ dn' = IF dies THEN opsAfterDeath(dn, pid, IdleDone) ELSE dn
     /\ kl' = IF dies THEN opsAfterDeath(kl, pid, IdleKill) ELSE kl
     /\ rec' = timeoutCleanupRec(name)
     /\ sp' = [sp EXCEPT ![i] = IdleSpawn]
     /\ ret' = Answer("spawn", "spawn_timeout",
                      IF sigkill THEN "term_kill" ELSE "term")
     /\ fx' = timeoutEffects(name)
  /\ UNCHANGED <<mesh, now, asg, calls, born, cap, tr, store, mem, obs, coll, ka, boot, mr, ib, wt>>

\* ----------------------------------------------------------------- killOne
\* a killOne that never marks the record done
killLeavesStatus(name) == rec

\* transitionState(name, "done") as killOne calls it: the result is ignored
killMarkDone(name) == [rec EXCEPT ![name] = transitionRecord(rec[name], "done")]

\* killOne's early returns; "-" when it goes on
killEarlyReturn(agent) ==
  IF agent = NoRec THEN "not_found"
  ELSE IF agent.st = "dead" \/ agent.st = "done" THEN "noop"
  ELSE "-"

\* The answer of the handler that called killOne: agents.kill reports the
\* outcome, agents.done (auto-kill, run by worker process `proc`) does not,
\* agents.killall (proc -1) goes on with the outcome of its target.
killAnswer(proc, res, sig) ==
  IF proc = 0 THEN Answer("kill", res, sig)
  ELSE IF proc = -1 THEN Answer("killall", res, sig)
  ELSE Answer("done", "done_autokill", sig)

\* killOne's tail: cleanupTmuxPane(agent) and the "kill" history event
killTailEffects(name) == {<<"cleanup", name>>, <<"history:kill", name>>}

\* killOne from its entry to its first wait, run by process `proc`
\* (0: the orchestrator's own process) in a handler that has made the
\* effects `before`.
KillEnter(k, name, proc, skipSummary, before) ==
  \* Whether killOne waits for captureKillSummaryIfNeeded's remember() first.
  LET agent == rec[name]
      killAwaitsSummary == ~skipSummary /\ agent.task # Null
  IN
  /\ killEarlyReturn(agent) = "-"
  /\ IF killAwaitsSummary
     THEN /\ kl' = [kl EXCEPT ![k] = [pc |-> "summary", name |-> name,
                                      pid |-> agent.pid, proc |-> proc,
                                      fx |-> before]]
          /\ rec' = rec
     ELSE /\ kl' = [kl EXCEPT ![k] = [pc |-> "grace", name |-> name,
                                      pid |-> agent.pid, proc |-> proc,
                                      fx |-> before \cup {<<"msg:shutdown", name>>}]]
          /\ rec' = killMarkDone(name)

\* agents.kill on a missing, done or dead record
KillEarly(k, name) ==
  /\ Call
  /\ FreeSlot(kl, k)
  /\ killEarlyReturn(rec[name]) # "-"
  /\ ret' = killAnswer(0, killEarlyReturn(rec[name]), "none")
  /\ fx' = {}
  /\ UNCHANGED <<rec, mesh, procs, closeq, now, sp, kl, asg, dn, born, cap, tr, store, mem, obs, coll, ka, boot, mr, ib, wt>>

\* agents.kill (and each target of agents.killall)
KillStart(k, name) ==
  /\ Call
  /\ FreeSlot(kl, k)
  /\ KillEnter(k, name, 0, FALSE, {})
  /\ UNCHANGED <<mesh, procs, closeq, now, sp, asg, dn, born, cap, ret, fx, tr, store, mem, obs, coll, ka, boot, mr, ib, wt>>

\* after the summary was captured: mark done, send SHUTDOWN, start the grace wait
KillMarkDone(k, m) ==
  /\ kl[k].pc = "summary"
  /\ IF memoryCall("kill", m) = "threw"
     THEN /\ kl' = [kl EXCEPT ![k] = IdleKill]
          /\ ret' = killAnswer(kl[k].proc, "threw", "none")
          /\ fx' = {}
          /\ ka' = IF kl[k].proc = -1 THEN [pc |-> "idle", todo |-> <<>>] ELSE ka
          /\ rec' = rec
     ELSE /\ rec' = killMarkDone(kl[k].name)
          /\ kl' = [kl EXCEPT
                      ![k].pc = "grace",
                      ![k].fx = @ \cup {<<"msg:shutdown", kl[k].name>>}
                                  \cup IF memoryCall("kill", m) = "done"
                                       THEN {<<"remember", kl[k].name>>} ELSE {}]
          /\ UNCHANGED <<ret, fx, ka>>
  /\ UNCHANGED <<mesh, procs, closeq, now, sp, asg, dn, calls, born, cap, tr, store, mem, obs, coll, boot, mr, ib, wt>>

\* killOne's tail: cleanupTmuxPane, transitionState dead, unregisterSpawned,
\* headlessRuntimes.delete, unlink of the mesh registration, history
KillCleanup(k) ==
  /\ rec' = deadAndUnregister(kl[k].name)
  /\ mesh' = [mesh EXCEPT ![kl[k].name] = NoReg]

\* waitForProcessExit(agent.pid, gracePeriodMs) saw the process gone
KillGraceExited(k) ==
  /\ kl[k].pc = "grace"
  /\ ~isPidAlive(kl[k].pid)
  /\ KillCleanup(k)
  /\ kl' = [kl EXCEPT ![k] = IdleKill]
  /\ ret' = killAnswer(kl[k].proc, "killed", "shutdown")
  /\ fx' = kl[k].fx \cup killTailEffects(kl[k].name)
  /\ UNCHANGED <<procs, closeq, now, sp, asg, dn, calls, born, cap, tr, store, mem, obs, coll, ka, boot, mr, ib, wt>>

\* the re-check after the grace period: may the kill go on to SIGTERM?
killMayEscalate(agentAfterGrace) ==
  agentAfterGrace # NoRec /\ agentAfterGrace.st = "done"

\* grace period over, process alive, record no longer done: no-op
KillGraceAbort(k) ==
  /\ kl[k].pc = "grace"
  /\ isPidAlive(kl[k].pid)
  /\ ~killMayEscalate(rec[kl[k].name])
  /\ kl' = [kl EXCEPT ![k] = IdleKill]
  /\ ret' = killAnswer(kl[k].proc, "noop", "shutdown")
  /\ fx' = kl[k].fx
  /\ UNCHANGED <<rec, mesh, procs, closeq, now, sp, asg, dn, calls, born, cap, tr, store, mem, obs, coll, ka, boot, mr, ib, wt>>

\* grace period over, process alive, record done: SIGTERM, wait 5000 ms
KillSigterm(k) ==
  /\ kl[k].pc = "grace"
  /\ isPidAlive(kl[k].pid)
  /\ killMayEscalate(rec[kl[k].name])
  /\ kl' = [kl EXCEPT ![k].pc = "term_wait"]
  /\ UNCHANGED <<rec, mesh, procs, closeq, now, sp, asg, dn, calls, born, cap, ret, fx, tr, store, mem, obs, coll, ka, boot, mr, ib, wt>>

\* the process went away within 5000 ms of SIGTERM
KillTermExited(k) ==
  /\ kl[k].pc = "term_wait"
  /\ ~isPidAlive(kl[k].pid)
  /\ KillCleanup(k)
  /\ kl' = [kl EXCEPT ![k] = IdleKill]
  /\ ret' = killAnswer(kl[k].proc, "killed", "term")
  /\ fx' = kl[k].fx \cup killTailEffects(kl[k].name)
  /\ UNCHANGED <<procs, closeq, now, sp, asg, dn, calls, born, cap, tr, store, mem, obs, coll, ka, boot, mr, ib, wt>>

\* a killOne that stops at SIGTERM
killNeverSigkill(agentAfterWait) == FALSE

\* a killOne that keeps waiting for the exit after its second wait
killKeepsWaiting(agentAfterWait) == FALSE

\* the condition under which killOne sends SIGKILL after the second wait
killMaySigkill(agentAfterWait) == TRUE

\* still alive 5000 ms after SIGTERM: SIGKILL, then the tail.  A kill that a
\* worker runs on itself (auto-kill) ends with its process, before the tail.
KillSigkill(k) ==
  /\ kl[k].pc = "term_wait"
  /\ isPidAlive(kl[k].pid)
  /\ killMaySigkill(rec[kl[k].name])
  /\ procs' = procsAfterDeath(kl[k].pid)
  /\ closeq' = closeqAfterDeath(kl[k].pid)
  /\ dn' = opsAfterDeath(dn, kl[k].pid, IdleDone)
  /\ kl' = opsAfterDeath([kl EXCEPT ![k] = IdleKill], kl[k].pid, IdleKill)
  /\ IF kl[k].proc = kl[k].pid
     THEN /\ ret' = Answer("done", "-", "term_kill")
          /\ fx' = kl[k].fx
          /\ UNCHANGED <<rec, mesh>>
     ELSE /\ ret' = killAnswer(kl[k].proc, "killed", "term_kill")
          /\ fx' = kl[k].fx \cup killTailEffects(kl[k].name)
          /\ KillCleanup(k)
  /\ UNCHANGED <<now, sp, asg, calls, born, cap, tr, store, mem, obs, coll, ka, boot, mr, ib, wt>>

\* ----------------------------------------------------- executeAgentsKillall
\* a killall that starts every killOne at once
killallNeverAwaits == TRUE

\* `await killOne(...)` in the loop: the killOne called last has returned
killallAwaited == \A j \in KillallIds : kl[j].pc = "idle"

\* executeAgentsKillall from its call, or from the return of the killOne it
\* awaited, to its next wait or its return.  `order` is the order in which
\* getAllSpawned lists the non-dead records.
Killall(k, order) ==
  LET active == {n \in Names : rec[n] # NoRec /\ rec[n].st # "dead"}
      todo == IF ka.pc = "idle" THEN order ELSE ka.todo
  IN /\ k \in KillallIds /\ kl[k].pc = "idle"
     /\ \A j \in KillallIds : j < k => kl[j].pc # "idle"
     /\ IF ka.pc = "idle"
        THEN /\ Call
             /\ order \in [1..Cardinality(active) -> active]
             /\ \A i, j \in DOMAIN order : order[i] = order[j] => i = j
        ELSE killallAwaited /\ order = ka.todo /\ calls' = calls
     /\ IF todo = <<>>
        THEN /\ ka' = [pc |-> "idle", todo |-> <<>>]
             /\ ret' = Answer("killall", "complete", "none")
             /\ fx' = {}
             /\ UNCHANGED <<rec, kl>>
        ELSE /\ ka' = [pc |-> "loop", todo |-> Tail(todo)]
             /\ IF killEarlyReturn(rec[Head(todo)]) # "-"
                THEN /\ ret' = killAnswer(-1, killEarlyReturn(rec[Head(todo)]), "none")
                     /\ fx' = {}
                     /\ UNCHANGED <<rec, kl>>
                ELSE /\ KillEnter(k, Head(todo), -1, FALSE, {})
                     /\ UNCHANGED <<ret, fx>>
     /\ UNCHANGED <<mesh, procs, closeq, now, sp, asg, dn, born, cap, tr, store, mem, obs, coll, boot, mr, ib, wt>>

\* an assign that refuses every record it refuses as not_running
assignRejectionOneError(agent) ==
  IF agent = NoRec THEN "not_found"
  ELSE IF agent.st \in {"assigned", "spawning", "dead", "done"} THEN "not_running"
  ELSE "-"

\* the error an assign is rejected with; "-" when it is accepted
assignRejection(agent) ==
  IF agent = NoRec THEN "not_found"
  ELSE IF agent.st = "assigned" THEN "already_assigned"
  ELSE IF agent.st = "spawning" THEN "still_spawning"
  ELSE IF agent.st = "dead" \/ agent.st = "done" THEN "not_running"
  ELSE "-"

AssignReject(a, name) ==
  /\ Call
  /\ FreeSlot(asg, a)
  /\ assignRejection(rec[name]) # "-"
  /\ ret' = Answer("assign", assignRejection(rec[name]), "none")
  /\ fx' = {}
  /\ UNCHANGED <<rec, mesh, procs, closeq, now, sp, kl, asg, dn, born, cap, tr, store, mem, obs, coll, ka, boot, mr, ib, wt>>

\* if (agent.status === "joined") transitionState(name, "idle"), then the
\* record as `latest` reads it
assignLatest(agent) ==
  IF agent.st = "joined" THEN transitionRecord(agent, "idle") ELSE agent

\* validation passed: a joined record is advanced to idle, `latest` is read,
\* and the handler waits for the memory recall
AssignBegin(a, name) ==
  /\ Call
  /\ FreeSlot(asg, a)
  /\ assignRejection(rec[name]) = "-"
  /\ assignLatest(rec[name]).st = "idle"
  /\ rec' = [rec EXCEPT ![name] = assignLatest(rec[name])]
  /\ asg' = [asg EXCEPT ![a] = [pc |-> "recall", name |-> name,
                                agent |-> rec[name],
                                latest |-> assignLatest(rec[name])]]
  /\ UNCHANGED <<mesh, procs, closeq, now, sp, kl, dn, born, cap, ret, fx, tr, store, mem, obs, coll, ka, boot, mr, ib, wt>>

\* sendMessageToAgent threw
AssignSendFailed(a) ==
  /\ asg[a].pc = "recall"
  /\ asg' = [asg EXCEPT ![a] = IdleAssign]
  /\ ret' = Answer("assign", "send_failed", "none")
  /\ fx' = {}
  /\ UNCHANGED <<rec, mesh, procs, closeq, now, sp, kl, dn, calls, born, cap, tr, store, mem, obs, coll, ka, boot, mr, ib, wt>>

\* the message was written to the inbox: the record is rewritten from `latest`
AssignDelivered(a, task, m) ==
  \* registerSpawned({...latest, status: "assigned", assignedTask: task, ...})
  LET assignedRecord(latest) ==
        [latest EXCEPT !.st = "assigned", !.task = task]
  IN
  /\ asg[a].pc = "recall"
  /\ rec' = IF memoryCall("assign", m) = "threw" THEN rec
            ELSE [rec EXCEPT ![asg[a].name] = assignedRecord(asg[a].latest)]
  /\ asg' = [asg EXCEPT ![a] = IdleAssign]
  /\ ret' = Answer("assign", IF memoryCall("assign", m) = "threw" THEN "threw"
                             ELSE "assigned", "none")
  /\ fx' = IF memoryCall("assign", m) = "threw" THEN {}
           ELSE {<<"msg:assign", asg[a].name>>, <<"history:assign", asg[a].name>>}
  /\ UNCHANGED <<mesh, procs, closeq, now, sp, kl, dn, calls, born, cap, tr, store, mem, obs, coll, ka, boot, mr, ib, wt>>

\* -------------------------------------------------------- executeAgentsDone
\* an agents.done that takes any stored record
doneAcceptsAnyStatus(agent) ==
  IF agent = NoRec THEN "not_spawned_agent" ELSE "-"

\* the error agents.done is rejected with; "-" when it is accepted
doneRejection(agent) ==
  IF agent = NoRec THEN "not_spawned_agent"
  ELSE IF agent.st # "assigned" THEN "invalid_state"
  ELSE "-"

\* The caller is the live mesh agent registered as `name`.
doneCaller(name) ==
  IF mesh[name] # NoReg /\ isPidAlive(mesh[name].pid) THEN mesh[name].pid ELSE 0

DoneReject(d, name) ==
  /\ Call
  /\ FreeSlot(dn, d)
  /\ doneCaller(name) # 0
  /\ doneRejection(rec[name]) # "-"
  /\ ret' = Answer("done", doneRejection(rec[name]), "none")
  /\ fx' = {}
  /\ UNCHANGED <<rec, mesh, procs, closeq, now, sp, kl, asg, dn, born, cap, tr, store, mem, obs, coll, ka, boot, mr, ib, wt>>

\* accepted: `agent` is read, the handler waits for remember()
DoneBegin(d, name, auto) ==
  /\ Call
  /\ FreeSlot(dn, d)
  /\ doneCaller(name) # 0
  /\ doneRejection(rec[name]) = "-"
  /\ dn' = [dn EXCEPT ![d] = [pc |-> "remember", name |-> name,
                              agent |-> rec[name], proc |-> doneCaller(name),
                              auto |-> auto, fx |-> {}]]
  /\ UNCHANGED <<rec, mesh, procs, closeq, now, sp, kl, asg, born, cap, ret, fx, tr, store, mem, obs, coll, ka, boot, mr, ib, wt>>

\* an accepted agents.done: remember(summary), the message to the spawner
\* and the "done" history event
doneEffects(name, m) ==
  {<<"msg:done", name>>, <<"history:done", name>>}
    \cup IF memoryCall("done", m) = "done" THEN {<<"remember", name>>} ELSE {}

\* autoKillOnDone = false: notify, log, rewrite the record from `agent`
DoneToIdle(d, m) ==
  \* registerSpawned({...agent, status: "idle", assignedTask: null, ...})
  LET doneIdleRecord(agent) == [agent EXCEPT !.st = "idle", !.task = Null]
  IN
  /\ dn[d].pc = "remember"
  /\ ~dn[d].auto
  /\ rec' = IF memoryCall("done", m) = "threw" THEN rec
            ELSE [rec EXCEPT ![dn[d].name] = doneIdleRecord(dn[d].agent)]
  /\ dn' = [dn EXCEPT ![d] = IdleDone]
  /\ ret' = Answer("done", IF memoryCall("done", m) = "threw" THEN "threw" ELSE "done",
                   "none")
  /\ fx' = IF memoryCall("done", m) = "threw" THEN {} ELSE doneEffects(dn[d].name, m)
  /\ UNCHANGED <<mesh, procs, closeq, now, sp, kl, asg, calls, born, cap, tr, store, mem, obs, coll, ka, boot, mr, ib, wt>>

\* autoKillOnDone = true: notify, log, sleep(5000)
DoneSleep(d, m) ==
  /\ dn[d].pc = "remember"
  /\ dn[d].auto
  /\ IF memoryCall("done", m) = "threw"
     THEN /\ dn' = [dn EXCEPT ![d] = IdleDone]
          /\ ret' = Answer("done", "threw", "none")
          /\ fx' = {}
     ELSE /\ dn' = [dn EXCEPT ![d].pc = "sleep", ![d].fx = doneEffects(dn[d].name, m)]
          /\ UNCHANGED <<ret, fx>>
  /\ UNCHANGED <<rec, mesh, procs, closeq, now, sp, kl, asg, calls, born, cap, tr, store, mem, obs, coll, ka, boot, mr, ib, wt>>

\* killOne(callerName, ..., { skipSummary: true }) in the worker's process;
\* the handler answers "Auto-kill executed" when killOne is back
DoneAutoKill(d, k) ==
  /\ dn[d].pc = "sleep"
  /\ FreeSlot(kl, k)
  /\ IF killEarlyReturn(rec[dn[d].name]) # "-"
     THEN /\ ret' = killAnswer(dn[d].proc, killEarlyReturn(rec[dn[d].name]), "none")
          /\ fx' = dn[d].fx
          /\ UNCHANGED <<rec, kl>>
     ELSE /\ KillEnter(k, dn[d].name, dn[d].proc, TRUE, dn[d].fx)
          /\ UNCHANGED <<ret, fx>>
  /\ dn' = [dn EXCEPT ![d] = IdleDone]
  /\ UNCHANGED <<mesh, procs, closeq, now, sp, asg, calls, born, cap, tr, store, mem, obs, coll, ka, boot, mr, ib, wt>>

\* ------------------------------------------------- sweeps and exit handlers
\* reapOrphans: the names markDeadAndDelete is called for
reapSet ==
  {n \in Names : rec[n] # NoRec /\ rec[n].st # "dead"
                 /\ shouldReap(rec[n], n) # "none"}

\* markDeadAndDelete(agent, cwd, reason) for each name of `names`, and the
\* reaped.push(agent.name) that follows it: cleanupTmux, the "reap" history
\* event, the entry of the returned list
reapEffects(names) ==
  UNION {{<<"cleanup", n>>, <<"history:reap", n>>, <<"returned", n>>} : n \in names}

\* reapOrphans / checkSpawnedAgentHealth / the sweep agents.list starts with.
\* A sweep that finds nothing to reap changes nothing and is left out.
HealthSweep ==
  /\ reapSet # {}
  /\ rec' = [n \in Names |-> IF n \in reapSet THEN NoRec ELSE rec[n]]
  /\ fx' = reapEffects(reapSet)
  /\ ret' = Answer("list", "ok", "none")
  /\ UNCHANGED <<mesh, procs, closeq, now, sp, kl, asg, dn, calls, born, cap, tr, store, mem, obs, coll, ka, boot, mr, ib, wt>>

\* executeAgentsCheck: a record whose pid is gone is moved to dead and removed
AgentsCheck(name) ==
  /\ rec[name] # NoRec
  /\ ~isPidAlive(rec[name].pid) /\ rec[name].st # "dead"
  /\ rec' = deadAndUnregister(name)
  /\ fx' = {}
  /\ ret' = Answer("check", "ok", "none")
  /\ UNCHANGED <<mesh, procs, closeq, now, sp, kl, asg, dn, calls, born, cap, tr, store, mem, obs, coll, ka, boot, mr, ib, wt>>

\* an exit handler that acts on idle records only
closeReapsIdleOnly(current) == current # NoRec /\ current.st = "idle"

\* proc.on("close"): if (current && current.status !== "dead")
closeReaps(current) == current # NoRec /\ current.st # "dead"

\* proc.on("close") of a headless child spawned as `name`
HeadlessClose(name) ==
  /\ name \in closeq
  /\ closeq' = closeq \ {name}
  /\ rec' = IF closeReaps(rec[name]) THEN deadAndUnregister(name) ELSE rec
  /\ fx' = IF closeReaps(rec[name]) THEN {<<"history:reap", name>>} ELSE {}
  /\ UNCHANGED <<mesh, procs, now, sp, kl, asg, dn, calls, born, cap, ret, tr, store, mem, obs, coll, ka, boot, mr, ib, wt>>

\* ------------------------------------------------------------ memory store
\* remember() and recall() on one enabled MemoryStore with an open collection.
\* A call is cut at its one await, embed(); eviction is left out (the
\* collection stays below maxEntries).
lifecycle == <<rec, mesh, procs, closeq, sp, kl, asg, dn, born, cap, fx, tr>>

\* breakerOpen(store)
breakerOpen(s) == now < s.breakerOpenUntil

\* markEmbeddingFailure(store, error)
markEmbeddingFailure(s) ==
  LET n == s.consecutiveEmbeddingFailures + 1 IN
  [s EXCEPT !.consecutiveEmbeddingFailures = n,
            !.breakerOpenUntil =
               IF n >= CIRCUIT_BREAKER_FAILURES
               THEN now + CIRCUIT_BREAKER_COOLDOWN_MS ELSE @]

\* a markEmbeddingSuccess that leaves the failure count
successKeepsCount(s) == [s EXCEPT !.breakerOpenUntil = 0]

\* markEmbeddingSuccess(store)
markEmbeddingSuccess(s) ==
  [s EXCEPT !.consecutiveEmbeddingFailures = 0, !.breakerOpenUntil = 0]

\* hasContentHash(store, hash)
hasContentHash(s, hash) == s.collection[hash] > 0

\* One more embedding outcome observed; the last three are kept.
observed(outcome) ==
  LET all == Append(obs.outcomes, outcome) IN
  IF Len(all) > CIRCUIT_BREAKER_FAILURES THEN Tail(all) ELSE all

MemCall == calls < MaxMemCalls /\ calls' = calls + 1

\* Date.now() advances by half a minute.
MemTick ==
  /\ now < MaxMemNow
  /\ now' = now + MemTickStep
  /\ UNCHANGED <<calls, ret, store, mem, obs, coll, ka, boot, mr, ib, wt>>
  /\ UNCHANGED <<lifecycle, coll, ka, boot, mr, ib, wt>>

\* remember / recall: if (!trimmed) return
MemEmptyText(kind, text) ==
  /\ MemCall
  /\ trim(text) = ""
  /\ ret' = Answer(kind, IF kind = "remember" THEN "empty_text" ELSE "ok", "none")
  /\ UNCHANGED <<now, store, mem, obs, coll, ka, boot, mr, ib, wt>>
  /\ UNCHANGED <<lifecycle, coll, ka, boot, mr, ib, wt>>

\* remember / recall: if (breakerOpen(store)) return { degraded: true }
MemBreakerOpen(kind, text) ==
  /\ MemCall
  /\ trim(text) # ""
  /\ breakerOpen(store)
  /\ ret' = Answer(kind, "breaker_open", "none")
  /\ UNCHANGED <<now, store, mem, obs, coll, ka, boot, mr, ib, wt>>
  /\ UNCHANGED <<lifecycle, coll, ka, boot, mr, ib, wt>>

\* remember: if (hasContentHash(store, hash)) return { ok: true }
RememberDuplicate(text) ==
  /\ MemCall
  /\ trim(text) # ""
  /\ ~breakerOpen(store)
  /\ hasContentHash(store, contentHash(trim(text)))
  /\ ret' = Answer("remember", "ok", "none")
  /\ UNCHANGED <<now, store, mem, obs, coll, ka, boot, mr, ib, wt>>
  /\ UNCHANGED <<lifecycle, coll, ka, boot, mr, ib, wt>>

\* remember / recall: the embedding request is issued
MemEmbedBegin(m, kind, text) ==
  /\ MemCall
  /\ FreeSlot(mem, m)
  /\ trim(text) # ""
  /\ ~breakerOpen(store)
  /\ kind = "remember" => ~hasContentHash(store, contentHash(trim(text)))
  /\ mem' = [mem EXCEPT ![m] = [pc |-> "embed", kind |-> kind,
                                hash |-> contentHash(trim(text))]]
  /\ UNCHANGED <<now, ret, store, obs, coll, ka, boot, mr, ib, wt>>
  /\ UNCHANGED <<lifecycle, coll, ka, boot, mr, ib, wt>>

\* embed() failed, or returned a vector of the wrong length
MemEmbedFailed(m) ==
  /\ mem[m].pc = "embed"
  /\ store' = markEmbeddingFailure(store)
  /\ obs' = [opened |-> IF store'.breakerOpenUntil # store.breakerOpenUntil
                        THEN now ELSE obs.opened,
             outcomes |-> observed("failed")]
  /\ mem' = [mem EXCEPT ![m] = IdleMem]
  /\ ret' = Answer(mem[m].kind, "embedding_failed", "none")
  /\ UNCHANGED <<now, calls>>
  /\ UNCHANGED <<lifecycle, coll, ka, boot, mr, ib, wt>>

\* remember: embed() succeeded and insertSync stored the entry
RememberStored(m) ==
  \* store.collection.insertSync({... contentHash: hash ...})
  LET insertSync(s, hash) == [s EXCEPT !.collection[hash] = @ + 1]
  IN
  /\ mem[m].pc = "embed" /\ mem[m].kind = "remember"
  /\ store' = insertSync(markEmbeddingSuccess(store), mem[m].hash)
  /\ obs' = [obs EXCEPT !.outcomes = observed("ok")]
  /\ mem' = [mem EXCEPT ![m] = IdleMem]
  /\ ret' = Answer("remember", "ok", "none")
  /\ UNCHANGED <<now, calls>>
  /\ UNCHANGED <<lifecycle, coll, ka, boot, mr, ib, wt>>

\* remember: embed() succeeded, insertSync threw or answered not ok
RememberInsertFailed(m) ==
  /\ mem[m].pc = "embed" /\ mem[m].kind = "remember"
  /\ store' = markEmbeddingSuccess(store)
  /\ obs' = [obs EXCEPT !.outcomes = observed("ok")]
  /\ mem' = [mem EXCEPT ![m] = IdleMem]
  /\ ret' = Answer("remember", "insert_failed", "none")
  /\ UNCHANGED <<now, calls>>
  /\ UNCHANGED <<lifecycle, coll, ka, boot, mr, ib, wt>>

\* recall: embed() succeeded, the collection is queried
RecallDone(m) ==
  /\ mem[m].pc = "embed" /\ mem[m].kind = "recall"
  /\ store' = markEmbeddingSuccess(store)
  /\ obs' = [obs EXCEPT !.outcomes = observed("ok")]
  /\ mem' = [mem EXCEPT ![m] = IdleMem]
  /\ ret' = Answer("recall", "ok", "none")
  /\ UNCHANGED <<now, calls>>
  /\ UNCHANGED <<lifecycle, coll, ka, boot, mr, ib, wt>>

MemKinds == {"remember", "recall"}

NextMemory ==
  \/ MemTick
  \/ \E kind \in MemKinds, t \in Texts : MemEmptyText(kind, t)
  \/ \E kind \in MemKinds, t \in Texts : MemBreakerOpen(kind, t)
  \/ \E t \in Texts : RememberDuplicate(t)
  \/ \E m \in MemIds, kind \in MemKinds, t \in Texts : MemEmbedBegin(m, kind, t)
  \/ \E m \in MemIds : MemEmbedFailed(m)
  \/ \E m \in MemIds : RememberStored(m)
  \/ \E m \in MemIds : RememberInsertFailed(m)
  \/ \E m \in MemIds : RecallDone(m)

SpecMemory == Init /\ [][NextMemory]_vars

\* ------------------------------------------------------ memory collection
\* The tail of remember() (insertSync, evictIfNeeded) and the tail of recall()
\* (rank, clip to the token budget) on the documents themselves.

\* importance(type)
importance(type) ==
  CASE type = "summary" -> 3
    [] type = "decision" -> 2
    [] type = "discovery" -> 1
    [] OTHER -> 0

\* approxTokens(text)
approxTokens(length) ==
  LET quarters == (length + 3) \div 4 IN IF quarters > 1 THEN quarters ELSE 1

\* sortCandidates(list): by importance, then by createdAtMs, ascending
RECURSIVE sortCandidates(_)
sortCandidates(list) ==
  IF list = {} THEN <<>>
  ELSE LET first == CHOOSE c \in list : \A d \in list :
                      \/ importance(c.type) < importance(d.type)
                      \/ /\ importance(c.type) = importance(d.type)
                         /\ c.createdAtMs <= d.createdAtMs
       IN <<first>> \o sortCandidates(list \ {first})

\* the while loop of evictIfNeeded: what is left of the candidates
RECURSIVE evictLoop(_, _)
evictLoop(candidates, removeCount) ==
  IF removeCount <= 0 \/ candidates = <<>> THEN candidates
  ELSE LET share == (maxEntries * MAX_AGENT_SHARE) \div 100
           maxPerAgent == IF share > 1 THEN share ELSE 1
           byAgent(agent) ==
             Cardinality({i \in DOMAIN candidates : candidates[i].agent = agent})
           over == {i \in DOMAIN candidates :
                      byAgent(candidates[i].agent) > maxPerAgent}
           index == IF over = {} THEN 1
                    ELSE CHOOSE i \in over : \A j \in over : i <= j
           rest == [i \in 1..(Len(candidates) - 1) |->
                      IF i < index THEN candidates[i] ELSE candidates[i + 1]]
       IN evictLoop(rest, removeCount - 1)

\* evictIfNeeded(store): the documents left in the collection
evictIfNeeded(docs) ==
  IF Cardinality(docs) <= maxEntries THEN docs
  ELSE LET left == evictLoop(sortCandidates(docs), Cardinality(docs) - maxEntries)
       IN {left[i] : i \in DOMAIN left}

\* a clip that admits every ranked entry
clipIgnoresBudget(ranked, maxTokens, usedTokens) == ranked

\* recall: the loop that fills clipped from ranked
RECURSIVE clip(_, _, _)
clip(ranked, maxTokens, usedTokens) ==
  IF ranked = <<>> THEN <<>>
  ELSE LET entry == Head(ranked)
           tokens == approxTokens(entry.text)
       IN IF usedTokens + tokens > maxTokens
          THEN clip(Tail(ranked), maxTokens, usedTokens)
          ELSE <<entry>> \o clip(Tail(ranked), maxTokens, usedTokens + tokens)

\* The answers a similarity search can give: at most topk documents, in any
\* order.
RECURSIVE Rankings(_, _)
Rankings(docs, topk) ==
  IF topk = 0 THEN {<<>>}
  ELSE {<<>>} \cup UNION {{<<d>> \o r : r \in Rankings(docs \ {d}, topk - 1)} : d \in docs}

\* remember: insertSync succeeded, evictIfNeeded(store) ran
CollectionInsert(agent, type, length) ==
  /\ coll.next <= MaxInserts
  /\ LET doc == [id |-> coll.next, agent |-> agent, type |-> type,
                 createdAtMs |-> coll.next, text |-> length]
         kept == evictIfNeeded(coll.docs \cup {doc})
     IN coll' = [docs |-> kept, next |-> coll.next + 1,
                 evicted |-> Cardinality(coll.docs) + 1 - Cardinality(kept),
                 maxTokens |-> 0, results |-> <<>>]
  /\ UNCHANGED <<lifecycle, now, calls, ret, store, mem, obs, ka, boot, mr, ib, wt>>

\* recall: the search answered with these documents in this order
CollectionRecall(ranked, maxTokens) ==
  /\ coll.docs # {}
  /\ coll' = [coll EXCEPT
                !.maxTokens = maxTokens,
                !.results =
                  clip([i \in DOMAIN ranked |->
                          [id |-> ranked[i].id, text |-> ranked[i].text,
                           agent |-> ranked[i].agent]],
                       maxTokens, 0)]
  /\ UNCHANGED <<lifecycle, now, calls, ret, store, mem, obs, ka, boot, mr, ib, wt>>

\* Entries of every agent and type, of one length: what eviction looks at.
NextEviction ==
  \E agent \in MemoryAgents, type \in {"message", "summary"} :
    \E length \in {l \in TextLengths : \A k \in TextLengths : l <= k} :
      CollectionInsert(agent, type, length)

SpecEviction == Init /\ [][NextEviction]_vars

\* Entries of every length, of one agent and type, and the recalls over them.
NextRecall ==
  \/ \E length \in TextLengths : CollectionInsert("alice", "message", length)
  \/ \E ranked \in Rankings(coll.docs, autoInjectTopK), maxTokens \in 1..3 :
       CollectionRecall(ranked, maxTokens)

SpecRecall == Init /\ [][NextRecall]_vars

\* ------------------------------------------------------------- initMemory

\* What initMemory can find on disk, and how the runtime behaves during the
\* call: whether opening the collection, the health check and the backup
\* rename succeed, fail with a corruption signature ("corrupt") or fail
\* otherwise, on the first attempt and again after the backup.
BootInputs ==
  [disk : {NoDisk} \cup [dir : {TRUE}, dim : {"configured", "other"},
                          meta : {"absent", "match", "mismatch", "unparsable"},
                          docs : {"none", "some"}],
   env : [enabled : BOOLEAN, runtime : BOOLEAN,
          open : {"ok", "corrupt", "other"}, health : {"ok", "corrupt", "other"},
          backup : {"ok", "throws"},
          open2 : {"ok", "corrupt", "other"}, health2 : {"ok", "corrupt", "other"}]]

\* openCollection, validateCollectionShape, validateMetadata, runHealthCheck:
\* the error it throws (sig: the message carries a corruption hint), the
\* directory it leaves, and whether store.collection was set.
initializeCollection(disk, open, health) ==
  IF open # "ok"
  THEN [err |-> "open", sig |-> open = "corrupt", disk |-> disk, collection |-> FALSE]
  ELSE LET opened == IF disk.dir THEN disk
                     ELSE [dir |-> TRUE, dim |-> "configured", meta |-> "absent",
                           docs |-> "none"]
       IN IF opened.dim # "configured"
          THEN [err |-> "schema", sig |-> FALSE, disk |-> opened, collection |-> FALSE]
          ELSE IF opened.meta \in {"mismatch", "unparsable"}
          THEN [err |-> "schema", sig |-> opened.meta = "unparsable", disk |-> opened,
                collection |-> FALSE]
          ELSE [err |-> IF health = "ok" THEN "none" ELSE "health",
                sig |-> health = "corrupt",
                disk |-> [opened EXCEPT !.meta = "match"], collection |-> TRUE]

schemaMismatchSwallowed(failure) == FALSE

\* if (error instanceof SchemaMismatchError) throw error
schemaMismatchRethrown(failure) == failure.err = "schema"

corruptionNeverSuspected(failure) == FALSE

isLikelyCorruptionError(failure) == failure.sig

\* initMemory, attemptSelfHeal and backupAndResetCollectionPath included
initMemory(disk, env) ==
  LET out(threw, degraded, reason, collection, after, backups) ==
        [pc |-> "done", disk0 |-> disk, disk |-> after, backups |-> backups,
         env |-> env, threw |-> threw, active |-> ~threw, enabled |-> env.enabled,
         degraded |-> degraded, reason |-> reason, collection |-> collection,
         answer |-> "-"]
      first == initializeCollection(disk, env.open, env.health)
      moved == first.disk.dir /\ env.backup = "ok"
      second == initializeCollection(IF moved THEN NoDisk ELSE first.disk,
                                     env.open2, env.health2)
  IN IF ~env.enabled THEN out(FALSE, TRUE, "memory_disabled", FALSE, disk, 0)
     ELSE IF ~env.runtime THEN out(FALSE, TRUE, "zvec_unavailable", FALSE, disk, 0)
     ELSE IF first.err = "none" THEN out(FALSE, FALSE, "-", TRUE, first.disk, 0)
     ELSE IF schemaMismatchRethrown(first)
     THEN out(TRUE, FALSE, "-", FALSE, first.disk, 0)
     ELSE IF ~isLikelyCorruptionError(first)
     THEN out(FALSE, TRUE, "init_failed", FALSE, first.disk, 0)
     ELSE IF first.disk.dir /\ env.backup = "throws"
     THEN out(FALSE, TRUE, "self_heal_failed", FALSE, first.disk, 0)
     ELSE IF second.err = "none"
     THEN out(FALSE, FALSE, "-", TRUE, second.disk, IF moved THEN 1 ELSE 0)
     ELSE out(FALSE, TRUE, "self_heal_failed", FALSE, second.disk,
              IF moved THEN 1 ELSE 0)

\* ensureMemory with no active store: initMemory runs on what is on disk
InitMemory(given) ==
  /\ boot.pc = "none"
  /\ boot' = initMemory(given.disk, given.env)
  /\ UNCHANGED <<lifecycle, now, calls, ret, store, mem, obs, coll, ka, mr, ib, wt>>

\* The next memory call of a handler: ensureMemory answers null after a throw,
\* and remember answers degraded for a store that is disabled, degraded or
\* without a collection.
RememberAfterInit ==
  /\ boot.pc = "done"
  /\ boot' = [boot EXCEPT
                !.pc = "called",
                !.answer = IF boot.threw THEN "no_store"
                           ELSE IF ~boot.enabled \/ boot.degraded \/ ~boot.collection
                           THEN "degraded" ELSE "proceeds"]
  /\ UNCHANGED <<lifecycle, now, calls, ret, store, mem, obs, coll, ka, mr, ib, wt>>

NextInitMemory ==
  \/ \E given \in BootInputs : InitMemory(given)
  \/ RememberAfterInit

SpecInitMemory == Init /\ [][NextInitMemory]_vars

\* ------------------------------------------------------- register (store.ts)
\* Two agent processes (pids 1 and 2, both alive) that call register() with
\* the same name: the same PI_AGENT_NAME, or the same generated name.  Each
\* file operation of register() is one step of its process.

\* register() up to its name check: state.agentName is set, an explicit name
\* held by another live process fails, a generated name moves on to the
\* first available one.  Runs at the call and again for every retry.
RegisterCheck(p, explicit) ==
  \* findAvailableName(baseName, dirs) as process `self` runs it: the base name
  \* when it has no file or the file is its own, else the first alternative
  \* without a file ("-": none).  Alternatives are kept for the base "n" only.
  LET findAvailableName(baseName, self) ==
        LET free(n) == mr.files[n] = 0
            alts == IF baseName = "n" THEN <<"n2", "n3">> ELSE <<>>
            open == {i \in DOMAIN alts : free(alts[i])}
        IN IF free(baseName) \/ mr.files[baseName] = self THEN baseName
           ELSE IF open = {} THEN "-"
           ELSE alts[CHOOSE i \in open : \A j \in open : i <= j]
  IN
  LET me == mr.ag[p]
      taken == mr.files[me.name] # 0 /\ mr.files[me.name] # p
      available == findAvailableName(me.name, p)
  IN /\ me.pc \in {"idle", "retry"}
     /\ me.pc = "retry" => explicit = me.explicit
     /\ mr' = [mr EXCEPT
                 !.ag[p].explicit = explicit,
                 !.ag[p].pc = IF explicit THEN (IF taken THEN "failed" ELSE "checked")
                              ELSE IF available = "-" THEN "failed" ELSE "checked",
                 !.ag[p].name = IF explicit \/ available = "-" THEN me.name
                                ELSE available]
     /\ UNCHANGED <<lifecycle, now, calls, ret, store, mem, obs, coll, ka, boot, ib, wt>>

\* if (fs.existsSync(regPath)) fs.unlinkSync(regPath)
RegisterUnlink(p) ==
  /\ mr.ag[p].pc = "checked"
  /\ mr' = [mr EXCEPT !.ag[p].pc = "unlinked", !.files[mr.ag[p].name] = 0]
  /\ UNCHANGED <<lifecycle, now, calls, ret, store, mem, obs, coll, ka, boot, ib, wt>>

\* fs.writeFileSync(regPath, JSON.stringify(registration))
RegisterWrite(p) ==
  /\ mr.ag[p].pc = "unlinked"
  /\ mr' = [mr EXCEPT !.ag[p].pc = "written", !.files[mr.ag[p].name] = p]
  /\ UNCHANGED <<lifecycle, now, calls, ret, store, mem, obs, coll, ka, boot, ib, wt>>

\* The read back: verified = written.pid === process.pid; a verified call
\* returns true with state.registered set, an explicit name fails, a
\* generated name goes round again until maxAttempts is used up.
RegisterVerify(p) ==
  LET me == mr.ag[p]
      verified == mr.files[me.name] = p
  IN /\ me.pc = "written"
     /\ mr' = [mr EXCEPT
                 !.ag[p].registered = verified,
                 !.ag[p].attempt = IF verified THEN @ ELSE @ + 1,
                 !.ag[p].pc = IF verified THEN "done"
                              ELSE IF me.explicit \/ me.attempt + 1 >= RegisterAttempts
                              THEN "failed" ELSE "retry"]
     /\ UNCHANGED <<lifecycle, now, calls, ret, store, mem, obs, coll, ka, boot, ib, wt>>

NextRegister ==
  \/ \E p \in DOMAIN mr.ag, explicit \in BOOLEAN : RegisterCheck(p, explicit)
  \/ \E p \in DOMAIN mr.ag : RegisterUnlink(p)
  \/ \E p \in DOMAIN mr.ag : RegisterWrite(p)
  \/ \E p \in DOMAIN mr.ag : RegisterVerify(p)

SpecRegister == Init /\ [][NextRegister]_vars

\* ------------------------------------- processAllPendingMessages (store.ts)
\* The inbox of one registered agent.  Messages are numbered in the order
\* their files are written, which is the order of their file names.
\* ib.stack holds the calls of processAllPendingMessages that are running,
\* the innermost last: the files still to handle, the message deliverFn is
\* busy with (0: none), and whether the call is a re-run.  deliverFn is the
\* caller's code, so a call can arrive from inside it.  ib.handed counts the
\* times a message was handed to deliverFn, ib.delivered holds the messages
\* deliverFn returned for, ib.owed the files that were in the inbox when a
\* deferred call arrived, ib.byRerun the messages handed over by a re-run.

\* Another agent's sendMessageToAgent writes a file into the inbox.
SendMessage ==
  /\ ib.sent < MaxMsgs
  /\ ib' = [ib EXCEPT !.sent = @ + 1, !.files = @ \cup {ib.sent + 1}]
  /\ UNCHANGED <<lifecycle, now, calls, ret, store, mem, obs, coll, ka, boot, mr, wt>>

\* if (isProcessingMessages) { pendingProcessArgs = ...; return }
guardOff(s) == FALSE
isProcessingMessages(s) == s.busy

\* processAllPendingMessages up to the listing of the inbox: deferred when a
\* run is in progress, else the flag is set and the .json files are listed
\* in sorted order.
processAllPendingMessages(s, rerun) ==
  LET n == Cardinality(s.files)
      files == CHOOSE q \in [1..n -> s.files] : \A i, j \in 1..n : i < j => q[i] < q[j]
  IN IF isProcessingMessages(s)
     THEN [s EXCEPT !.pending = TRUE, !.owed = @ \cup s.files]
     ELSE [s EXCEPT !.busy = TRUE,
                    !.stack = Append(@, [todo |-> files, cur |-> 0, rerun |-> rerun])]

\* A call of processAllPendingMessages: from an event handler (turn_end, the
\* watcher's debounce timer, startWatcher) when no call is running, or from
\* inside deliverFn.
ProcessCall ==
  /\ ib.calls < MaxProcessCalls
  /\ ib.stack # <<>> => ib.stack[Len(ib.stack)].cur # 0
  /\ ib' = [processAllPendingMessages(ib, FALSE) EXCEPT !.calls = @ + 1]
  /\ UNCHANGED <<lifecycle, now, calls, ret, store, mem, obs, coll, ka, boot, mr, wt>>

\* The loop takes the next file: readFileSync, JSON.parse and the call of
\* deliverFn.  A file that is gone fails the read; the catch block's unlink
\* fails as well and the loop goes on.
DeliverStart ==
  LET top == Len(ib.stack)
      f == ib.stack[top]
      msg == Head(f.todo)
  IN /\ ib.stack # <<>>
     /\ f.cur = 0
     /\ f.todo # <<>>
     /\ ib' = IF msg \in ib.files
               THEN [ib EXCEPT !.stack[top].cur = msg,
                               !.handed[msg] = @ + 1,
                               !.byRerun = IF f.rerun THEN @ \cup {msg} ELSE @]
               ELSE [ib EXCEPT !.stack[top].todo = Tail(@)]
     /\ UNCHANGED <<lifecycle, now, calls, ret, store, mem, obs, coll, ka, boot, mr, wt>>

\* deliverFn returns or throws: unlinkSync(msgPath) after a delivery, and
\* in the catch block after a failure.
DeliverEnd(outcome) ==
  LET top == Len(ib.stack)
      f == ib.stack[top]
  IN /\ ib.stack # <<>>
     /\ f.cur # 0
     /\ ib' = [ib EXCEPT !.files = @ \ {f.cur},
                         !.delivered = IF outcome = "ok" THEN @ \cup {f.cur} ELSE @,
                         !.stack[top] = [f EXCEPT !.cur = 0, !.todo = Tail(@)]]
     /\ UNCHANGED <<lifecycle, now, calls, ret, store, mem, obs, coll, ka, boot, mr, wt>>

\* The finally block: the flag is cleared and a deferred call is made now.
RunEnd ==
  LET top == Len(ib.stack)
      f == ib.stack[top]
      left == [ib EXCEPT !.busy = FALSE, !.stack = SubSeq(@, 1, top - 1)]
  IN /\ ib.stack # <<>>
     /\ f.cur = 0
     /\ f.todo = <<>>
     /\ ib' = IF ib.pending
               THEN processAllPendingMessages([left EXCEPT !.pending = FALSE], TRUE)
               ELSE left
     /\ UNCHANGED <<lifecycle, now, calls, ret, store, mem, obs, coll, ka, boot, mr, wt>>

NextInbox ==
  \/ SendMessage
  \/ ProcessCall
  \/ DeliverStart
  \/ \E outcome \in {"ok", "throws"} : DeliverEnd(outcome)
  \/ RunEnd

SpecInbox == Init /\ [][NextInbox]_vars

\* ---------------------------------------------------- the watcher (store.ts)
\* wt.watcher: state.watcher is set; wt.retries: state.watcherRetries;
\* wt.timer: the time the pending retry timer is due (0: no timer), wt.delay
\* its delay; wt.clock: the time in milliseconds.  wt.by names the handler
\* that ran last, wt.revived tells that a handler has reset the count of a
\* watcher that had used up its retries.  The inbox is empty throughout, so
\* startWatcher's call of processAllPendingMessages finds nothing to do.
\* `ok` tells whether fs.watch succeeds.

\* scheduleRetry() inside startWatcher.
scheduleAlways(s) ==
  [s EXCEPT !.retries = @ + 1, !.timer = s.clock + 1000, !.delay = 1000]
scheduleRetry(s) ==
  LET n == s.retries + 1
      pow == 1000 * 2^(n - 1)
      delay == IF pow < 30000 THEN pow ELSE 30000
  IN IF n < MAX_WATCHER_RETRIES
     THEN [s EXCEPT !.retries = n, !.timer = s.clock + delay, !.delay = delay]
     ELSE [s EXCEPT !.retries = n]

startWatcher(s, ok) ==
  IF ~s.registered \/ s.watcher \/ s.retries >= MAX_WATCHER_RETRIES THEN s
  ELSE IF ok THEN [s EXCEPT !.watcher = TRUE, !.retries = 0]
  ELSE scheduleRetry(s)

stopWatcher(s) == [s EXCEPT !.watcher = FALSE, !.timer = 0, !.delay = 0]

\* executeJoin: register() succeeded, the watcher is started.
ExecuteJoin(ok) ==
  /\ ~wt.registered
  /\ wt' = [startWatcher([wt EXCEPT !.registered = TRUE], ok) EXCEPT !.by = "join"]
  /\ UNCHANGED <<lifecycle, now, calls, ret, store, mem, obs, coll, ka, boot, mr, ib>>

\* The retry timer's callback.
RetryTimerFires(ok) ==
  /\ wt.timer # 0
  /\ wt.clock >= wt.timer
  /\ wt' = [startWatcher([wt EXCEPT !.timer = 0, !.delay = 0], ok) EXCEPT !.by = "timer"]
  /\ UNCHANGED <<lifecycle, now, calls, ret, store, mem, obs, coll, ka, boot, mr, ib>>

\* The watcher's "error" listener.
WatcherError ==
  /\ wt.watcher
  /\ wt' = [scheduleRetry(stopWatcher(wt)) EXCEPT !.by = "error"]
  /\ UNCHANGED <<lifecycle, now, calls, ret, store, mem, obs, coll, ka, boot, mr, ib>>

\* recoverWatcherIfNeeded(), run by turn_end, session_switch, session_fork.
RecoverWatcherIfNeeded(ok) ==
  /\ wt.registered /\ ~wt.watcher /\ wt.timer = 0
  /\ wt' = [startWatcher([wt EXCEPT !.retries = 0], ok) EXCEPT
              !.by = "recover",
              !.revived = @ \/ wt.retries >= MAX_WATCHER_RETRIES]
  /\ UNCHANGED <<lifecycle, now, calls, ret, store, mem, obs, coll, ka, boot, mr, ib>>

\* executeRename: the watcher is stopped, and started again under the new
\* name with the count reset, or under the old name when the rename failed.
ExecuteRename(success, ok) ==
  /\ success => wt.registered
  /\ wt' = [startWatcher(IF success THEN [stopWatcher(wt) EXCEPT !.retries = 0]
                          ELSE stopWatcher(wt), ok) EXCEPT
              !.by = "rename",
              !.revived = @ \/ (success /\ wt.retries >= MAX_WATCHER_RETRIES)]
  /\ UNCHANGED <<lifecycle, now, calls, ret, store, mem, obs, coll, ka, boot, mr, ib>>

\* Time passes.
ClockTick ==
  /\ wt.clock < MaxWatchClock
  /\ wt' = [wt EXCEPT !.clock = @ + WatchTick]
  /\ UNCHANGED <<lifecycle, now, calls, ret, store, mem, obs, coll, ka, boot, mr, ib>>

NextWatcher ==
  \/ \E ok \in BOOLEAN : ExecuteJoin(ok)
  \/ \E ok \in BOOLEAN : RetryTimerFires(ok)
  \/ WatcherError
  \/ \E ok \in BOOLEAN : RecoverWatcherIfNeeded(ok)
  \/ \E success, ok \in BOOLEAN : ExecuteRename(success, ok)
  \/ ClockTick

SpecWatcher == Init /\ [][NextWatcher]_vars

\* ----------------------------------------------------------- specifications
SpawnSteps(backends) ==
  \/ \E i \in SpawnIds : SpawnLimit(i)
  \/ \E i \in SpawnIds : SpawnNameCollision(i)
  \/ \E i \in SpawnIds : SpawnTmuxFailed(i)
  \/ \E i \in SpawnIds, n \in Names, b \in backends, p \in Pids :
       SpawnLaunch(i, n, b, p)
  \/ \E i \in SpawnIds : SpawnAccept(i)
  \/ \E i \in SpawnIds : SpawnAcceptWriteFailed(i)
  \/ \E i \in SpawnIds, m \in MemoryOutcomes : SpawnReturnOk(i, m)
  \/ \E i \in SpawnIds : SpawnTimeout(i)
  \/ \E i \in SpawnIds : SpawnTimeoutCleanup(i)

\* The lifecycle of spawned workers: every handler, the sweeps and the exit
\* handler, over workers that register themselves.
Next ==
  \/ \E p \in Pids : ProcExit(p)
  \/ \E p \in Pids : WorkerRegister(p)
  \/ SpawnSteps({"tmux", "headless"})
  \/ \E k \in KillIds, n \in Names : KillEarly(k, n)
  \/ \E k \in KillIds, n \in Names : KillStart(k, n)
  \/ \E k \in KillIds, m \in MemoryOutcomes : KillMarkDone(k, m)
  \/ \E k \in KillIds : KillGraceExited(k)
  \/ \E k \in KillIds : KillGraceAbort(k)
  \/ \E k \in KillIds : KillSigterm(k)
  \/ \E k \in KillIds : KillTermExited(k)
  \/ \E k \in KillIds : KillSigkill(k)
  \/ \E a \in AssignIds, n \in Names : AssignReject(a, n)
  \/ \E a \in AssignIds, n \in Names : AssignBegin(a, n)
  \/ \E a \in AssignIds : AssignSendFailed(a)
  \/ \E a \in AssignIds, t \in Tasks, m \in MemoryOutcomes : AssignDelivered(a, t, m)
  \/ \E d \in DoneIds, n \in Names : DoneReject(d, n)
  \/ \E d \in DoneIds, n \in Names, au \in BOOLEAN : DoneBegin(d, n, au)
  \/ \E d \in DoneIds, m \in MemoryOutcomes : DoneToIdle(d, m)
  \/ \E d \in DoneIds, m \in MemoryOutcomes : DoneSleep(d, m)
  \/ \E d \in DoneIds, k \in KillIds : DoneAutoKill(d, k)
  \/ HealthSweep
  \/ \E n \in Names : AgentsCheck(n)
  \/ \E n \in Names : HeadlessClose(n)

Spec == Init /\ [][Next]_vars

\* The same with the scheduling the program has: a handler that was resumed
\* by its timer or its awaited call runs its next step, the 'close' event of
\* an exited child is delivered, and the health check of the 15 s status
\* heartbeat runs again and again.  Tool calls and process exits stay free.
DoneContinues ==
  \E d \in DoneIds :
    \/ \E m \in MemoryOutcomes : DoneToIdle(d, m) \/ DoneSleep(d, m)
    \/ \E k \in KillIds : DoneAutoKill(d, k)

KillContinues ==
  \E k \in DOMAIN kl :
    \/ \E m \in MemoryOutcomes : KillMarkDone(k, m)
    \/ KillGraceExited(k) \/ KillGraceAbort(k)
    \/ KillSigterm(k) \/ KillTermExited(k) \/ KillSigkill(k)

CloseDelivered == \E n \in Names : HeadlessClose(n)

SpecFair ==
  /\ Init /\ [][Next]_vars
  /\ WF_vars(DoneContinues)
  /\ WF_vars(KillContinues)
  /\ WF_vars(CloseDelivered)
  /\ WF_vars(HealthSweep)

\* The spawn handshake in full: the clock, wrappers that fork the agent,
\* agents of other sessions joining the mesh, and the sweep, with tmux
\* available.
NextHandshake ==
  \/ Tick
  \/ \E p \in Pids : ProcExit(p)
  \/ \E p \in Pids : WorkerRegister(p)
  \/ \E p, c \in Pids : WorkerFork(p, c)
  \/ \E n \in Names, f \in Pids : ForeignJoin(n, f)
  \/ SpawnSteps({"tmux"})
  \/ HealthSweep

SpecHandshake == InitHandshake /\ [][NextHandshake]_vars

\* agents.killall and agents.kill over two workers, with the spawns that
\* bring them up and the exits of their processes.
NextKillall ==
  \/ \E p \in Pids : ProcExit(p)
  \/ \E p \in Pids : WorkerRegister(p)
  \/ SpawnSteps({"headless"})
  \/ \E n \in Names : HeadlessClose(n)
  \/ \E k \in KillallIds, order \in UNION {[1..m -> Names] : m \in 0..Cardinality(Names)} :
       Killall(k, order)
  \/ \E k \in KillIds, n \in Names : KillEarly(k, n)
  \/ \E k \in KillIds, n \in Names : KillStart(k, n)
  \/ \E k \in DOMAIN kl : KillGraceExited(k)
  \/ \E k \in DOMAIN kl : KillGraceAbort(k)
  \/ \E k \in DOMAIN kl : KillSigterm(k)
  \/ \E k \in DOMAIN kl : KillTermExited(k)
  \/ \E k \in DOMAIN kl : KillSigkill(k)

SpecKillall == InitHandshake /\ [][NextKillall]_vars

\* agents.assign called again while an assign is waiting for its memory
\* recall, over one worker and the spawn that brings it up.
NextAssignOverlap ==
  \/ \E p \in Pids : ProcExit(p)
  \/ \E p \in Pids : WorkerRegister(p)
  \/ SpawnSteps({"headless"})
  \/ \E n \in Names : HeadlessClose(n)
  \/ \E a \in DOMAIN asg, n \in Names : AssignReject(a, n)
  \/ \E a \in DOMAIN asg, n \in Names : AssignBegin(a, n)
  \/ \E a \in DOMAIN asg : AssignSendFailed(a)
  \/ \E a \in DOMAIN asg, t \in Tasks, m \in MemoryOutcomes : AssignDelivered(a, t, m)

SpecAssignOverlap == Init /\ [][NextAssignOverlap]_vars

\* The same with the scheduling the program has: the timers of sleep() fire
\* and the handlers that await them run their next step.  Tool calls and
\* process exits stay free.
SpawnContinues ==
  \E i \in SpawnIds :
    \/ SpawnAccept(i) \/ SpawnAcceptWriteFailed(i)
    \/ \E m \in MemoryOutcomes : SpawnReturnOk(i, m)
    \/ SpawnTimeout(i) \/ SpawnTimeoutCleanup(i)

KillallContinues ==
  ka.pc = "loop" /\ \E k \in KillallIds : Killall(k, ka.todo)

SpecKillallFair ==
  /\ InitHandshake /\ [][NextKillall]_vars
  /\ WF_vars(SpawnContinues)
  /\ WF_vars(KillContinues)
  /\ WF_vars(KillallContinues)

\* ------------------------------------------------------- the registry alone
\* The records the handlers write: a task only with assigned, or with the
\* done that killOne makes of assigned; the session id from the join on.
WrittenRecords ==
  {r \in [st : Statuses, task : Tasks \cup {Null}, pid : Pids, sid : {0} \cup Pids] :
     /\ r.task # Null => r.st \in {"assigned", "done"}
     /\ r.sid = IF r.st = "spawning" THEN 0 ELSE r.pid}

\* registerSpawned(agent)
RegisterSpawned(name, agent) ==
  /\ rec' = [rec EXCEPT ![name] = agent]
  /\ UNCHANGED <<mesh, procs, closeq, now, sp, kl, asg, dn, calls, born, cap, ret, fx, tr, store, mem, obs, coll, ka, boot, mr, ib, wt>>

\* unregisterSpawned(name)
UnregisterSpawned(name) ==
  /\ rec[name] # NoRec
  /\ rec' = [rec EXCEPT ![name] = NoRec]
  /\ UNCHANGED <<mesh, procs, closeq, now, sp, kl, asg, dn, calls, born, cap, ret, fx, tr, store, mem, obs, coll, ka, boot, mr, ib, wt>>

\* transitionState(name, to), with what it read and what it returned
TransitionState(name, to) ==
  \* transitionState(name, to): its return value
  LET transitionOk(current) ==
        current # NoRec /\ canTransition(current.st, to)
  IN
  /\ tr' = [name |-> name, to |-> to, from |-> rec[name].st,
            ok |-> transitionOk(rec[name])]
  /\ rec' = [rec EXCEPT ![name] = transitionRecord(rec[name], to)]
  /\ UNCHANGED <<mesh, procs, closeq, now, sp, kl, asg, dn, calls, born, cap, ret, fx, store, mem, obs, coll, ka, boot, mr, ib, wt>>

NextRegistry ==
  \/ \E n \in Names, r \in WrittenRecords : RegisterSpawned(n, r)
  \/ \E n \in Names : UnregisterSpawned(n)
  \/ \E n \in Names, to \in Statuses : TransitionState(n, to)

SpecRegistry == Init /\ [][NextRegistry]_vars
\* ------------------------------------------------------------------ claims
\* C1: under every interleaving of the handlers, the sweeps and process
\* exits, each change of a record's persisted status goes from a status to one
\* of its successors in VALID_TRANSITIONS.  A record appears as spawning, its
\* removal is the move to dead followed by the unlink, and the accepted
\* handshake writes joined and then idle.
LifecycleFollowsTable ==
  [][\A n \in Names :
       LET from == rec[n].st
           to == rec'[n].st IN
       from # to =>
         IF from = "none" THEN to = "spawning"
         ELSE IF to = "none" THEN "dead" \in VALID_TRANSITIONS[from]
         ELSE \/ to \in VALID_TRANSITIONS[from]
              \/ /\ \E i \in SpawnIds : SpawnAccept(i)
                 /\ "joined" \in VALID_TRANSITIONS[from]
                 /\ to \in VALID_TRANSITIONS["joined"]]_vars

\* C2: killOne sends SIGTERM or SIGKILL only when the record, read just
\* before the signal, is in status done.
KillSignalsOnlyWhenDone ==
  [][\A k \in KillIds :
       (KillSigterm(k) \/ KillSigkill(k)) => rec[kl[k].name].st = "done"]_vars

\* C3: in every reachable state, a stored record carries a task if and only
\* if its status is assigned.
TaskIffAssigned ==
  \A n \in Names :
    rec[n] # NoRec => (rec[n].task # Null <=> rec[n].st = "assigned")

\* C4: transitionState succeeds on every pair of the table and stores the
\* target status; on every other pair, and on a missing record, it fails and
\* leaves the store as it was; a request for the current status succeeds and
\* changes nothing.
TransitionContract ==
  [][\A n \in Names, to \in Statuses :
       TransitionState(n, to) =>
         LET before == rec[n] IN
         IF before # NoRec /\ before.st = to
           THEN tr'.ok /\ rec' = rec
         ELSE IF before # NoRec /\ to \in VALID_TRANSITIONS[before.st]
           THEN /\ tr'.ok
                /\ rec'[n].st = to
                /\ rec'[n].pid = before.pid /\ rec'[n].sid = before.sid
                /\ \A m \in Names \ {n} : rec'[m] = rec[m]
         ELSE ~tr'.ok /\ rec' = rec]_vars

\* C4, its case: a transition of the table was made and is stored.
TransitionMade ==
  /\ tr.ok /\ tr.from = "assigned" /\ tr.to = "done"
  /\ rec[tr.name].st = "done"

\* C9: when the delivery of the assignment fails, the record is what it was
\* when the assign call read it (no other handler having written it since).
FailedDeliveryLeavesRecord ==
  [][\A a \in AssignIds :
       AssignSendFailed(a) /\ rec[asg[a].name] = asg[a].latest
         => rec'[asg[a].name] = asg[a].agent]_vars

\* C10: a kill of an agent whose record is done, or absent because the agent
\* is dead, answers without an error, sends no signal and no SHUTDOWN message
\* and leaves the store as it was.
KillOfGoneAgentIsNoOp ==
  [][\A k \in KillIds, n \in Names :
       KillEarly(k, n) =>
         ret'.op = "kill" /\ ret'.res = "noop" /\ ret'.sig = "none" /\ rec' = rec]_vars

NoLaunchUnderTakenName ==
  [][\A i \in SpawnIds :
       LET taken(n) == \/ rec[n] # NoRec /\ rec[n].st # "dead"
                       \/ mesh[n] # NoReg /\ procs[mesh[n].pid].st = "alive" IN
       /\ sp[i].pc = "idle" /\ sp'[i].pc = "handshake" => ~taken(sp'[i].name)
       /\ SpawnNameCollision(i) => \E n \in Names : taken(n)]_vars

\* C6, its case: with a worker running under one name and a live agent of
\* another session registered under the other, spawn has answered
\* name_collision.
NameCollisionAnswered ==
  /\ ret = Answer("spawn", "name_collision", "none")
  /\ \E n, m \in Names :
       /\ rec[n] # NoRec /\ rec[m] = NoRec
       /\ mesh[m] # NoReg /\ procs[mesh[m].pid].st = "alive"

SuccessMeansIdleRecord ==
  [][\A i \in SpawnIds :
       SpawnAccept(i) =>
         /\ rec'[sp[i].name] # NoRec
         /\ rec'[sp[i].name].st = "idle"
         /\ rec'[sp[i].name].sid = mesh[sp[i].name].sid]_vars

\* C11: when agents.kill takes an assigned agent, killOne moves its record from
\* assigned to done, and when the process is gone by the end of the grace
\* period the kill ends with the record moved to dead and deleted, the mesh
\* registration unlinked, and neither SIGTERM nor SIGKILL sent: no process is
\* touched and the answer reports the SHUTDOWN message only.
GracefulKillOfAssigned ==
  [][\A k \in KillIds :
       /\ (\E m \in MemoryOutcomes : KillMarkDone(k, m))
            /\ rec[kl[k].name].st = "assigned"
            => rec'[kl[k].name].st = "done"
       /\ KillGraceExited(k)
            => /\ rec'[kl[k].name] = NoRec
               /\ \A n \in Names \ {kl[k].name} : rec'[n] = rec[n]
               /\ procs' = procs
               /\ ret' = Answer("kill", "killed", "shutdown")]_vars

\* C11, its case: agents.kill took an assigned agent, marked it done (the
\* record still carries the task) and sent SHUTDOWN, and the worker's process
\* has exited while the kill waits out the grace period.
AssignedExitedInGrace ==
  \E k \in KillIds :
    /\ kl[k].pc = "grace" /\ kl[k].proc = 0
    /\ rec[kl[k].name].st = "done" /\ rec[kl[k].name].task # Null
    /\ rec[kl[k].name].pid = kl[k].pid
    /\ ~isPidAlive(kl[k].pid)

DoneOnlyFromAssigned ==
  [][\A d \in DoneIds :
       /\ \A n \in Names :
            /\ DoneReject(d, n) =>
                 /\ rec[n] = NoRec \/ rec[n].st # "assigned"
                 /\ ret'.op = "done"
                 /\ ret'.res \in {"not_spawned_agent", "invalid_state"}
                 /\ rec' = rec /\ fx' = {}
            /\ (\E au \in BOOLEAN : DoneBegin(d, n, au)) =>
                 rec[n] # NoRec /\ rec[n].st = "assigned"
       /\ (\E m \in MemoryOutcomes : DoneToIdle(d, m)) =>
            /\ rec'[dn[d].name].st = "idle"
            /\ rec'[dn[d].name].task = Null
            /\ ret' = Answer("done", "done", "none")]_vars

\* C13, its case: a live worker whose record is idle has called agents.done
\* and was answered invalid_state.
DoneRejectedWhenIdle ==
  /\ ret = Answer("done", "invalid_state", "none")
  /\ fx = {}
  /\ \E n \in Names :
       /\ rec[n] # NoRec /\ rec[n].st = "idle"
       /\ mesh[n] # NoReg /\ isPidAlive(mesh[n].pid)

\* C14: when the 'close' handler of a headless worker has run, no record is
\* stored under the worker's name: a record in any non-dead status was moved
\* to dead (a move the table allows from every status) and removed with one
\* reap event, the other records are untouched, and when no record was left
\* the handler changed nothing and logged nothing.
ExitHandlerRemovesRecord ==
  [][\A n \in Names :
       HeadlessClose(n) =>
         /\ rec'[n] = NoRec
         /\ \A m \in Names \ {n} : rec'[m] = rec[m]
         /\ rec[n] # NoRec =>
              /\ "dead" \in VALID_TRANSITIONS[rec[n].st]
              /\ fx' = {<<"history:reap", n>>}
         /\ rec[n] = NoRec => rec' = rec /\ fx' = {}]_vars

\* C14, its case: the 'close' handler has removed the record of a headless
\* worker whose process exited.
ExitHandlerRemoved ==
  \E n \in Names :
    /\ fx = {<<"history:reap", n>>} /\ ret.res # "spawn_timeout"
    /\ rec[n] = NoRec /\ n \notin closeq
    /\ \A p \in Pids : ~isPidAlive(p)

SweepSparesPendingSpawn ==
  [][HealthSweep =>
       \A n \in Names :
         /\ rec[n] # NoRec /\ rec[n].st = "spawning"
         /\ isPidAlive(rec[n].pid)
         /\ mesh[n] = NoReg
         => rec'[n] = rec[n] /\ <<"returned", n>> \notin fx']_vars

OneEntryPerHash == \A h \in Hashes : store.collection[h] <= 1

\* C19: during the 60 seconds after the breaker opened, every remember and
\* recall call with a non-empty text answers degraded and issues no embedding
\* request, whatever requests were in flight when the breaker opened.
BreakerHoldsForCooldown ==
  [][(/\ obs.opened # -1
      /\ now < obs.opened + CIRCUIT_BREAKER_COOLDOWN_MS
      /\ calls' # calls
      /\ ~(\E kind \in MemKinds, t \in Texts : MemEmptyText(kind, t)))
     => (mem' = mem /\ ret'.res \in {"breaker_open", "embedding_failed", "insert_failed"})]_vars

\* C20: a successful embedding leaves the failure count at 0 and the breaker
\* closed, and the breaker is opened or held open only when the last three
\* embedding outcomes were failures.
SuccessClosesBreaker ==
  /\ [][(\E m \in MemIds : RememberStored(m) \/ RememberInsertFailed(m) \/ RecallDone(m))
        => (/\ store'.consecutiveEmbeddingFailures = 0
            /\ store'.breakerOpenUntil = 0
            /\ ~(now' < store'.breakerOpenUntil))]_vars
  /\ [][store'.breakerOpenUntil > store.breakerOpenUntil
        => obs'.outcomes = <<"failed", "failed", "failed">>]_vars
  /\ [](store.breakerOpenUntil > 0
        => obs.outcomes = <<"failed", "failed", "failed">>)

\* C20 witness: within the cooldown of an opened breaker, a success has
\* closed it and reset the count.
SuccessClosedOpenBreaker ==
  /\ obs.opened # -1
  /\ now < obs.opened + CIRCUIT_BREAKER_COOLDOWN_MS
  /\ obs.outcomes = <<"failed", "failed", "ok">>
  /\ store.breakerOpenUntil = 0
  /\ store.consecutiveEmbeddingFailures = 0

\* C21: after an insert whose eviction removed entries (the store stood one
\* above maxEntries), no agent holds more than 40% of the entries left.
EvictionKeepsAgentShare ==
  coll.evicted > 0
    => \A agent \in MemoryAgents :
         100 * Cardinality({d \in coll.docs : d.agent = agent})
           <= MAX_AGENT_SHARE * Cardinality(coll.docs)

\* C28: the approximate token lengths of the entries recall returns sum to at
\* most the token budget, and each returned entry has the whole text of its
\* stored document.
RecallWithinBudget ==
  LET RECURSIVE sumTokens(_)
      sumTokens(entries) ==
        IF entries = <<>> THEN 0
        ELSE approxTokens(Head(entries).text) + sumTokens(Tail(entries))
  IN /\ sumTokens(coll.results) <= coll.maxTokens
     /\ \A i \in DOMAIN coll.results :
          \E d \in coll.docs : d.id = coll.results[i].id /\ d.text = coll.results[i].text

\* C28 witness: a recall left out an entry that did not fit and returned a
\* later one that did.
RecallSkippedTooLong ==
  /\ coll.maxTokens = 1
  /\ Len(coll.results) = 1
  /\ \E d \in coll.docs : approxTokens(d.text) = 2 /\ d.id < coll.results[1].id

\* C24: a spawn called with as many non-dead records as the cap allows is
\* answered limit_reached, and that answer and the name_collision answer come
\* with no process started and no record or registration written.
SpawnRejectedBeforeLaunch ==
  [][LET stored == {n \in Names : rec[n].st \notin {"none", "dead"}}
         spawnCall ==
           \E i \in SpawnIds :
             \/ SpawnLimit(i) \/ SpawnNameCollision(i) \/ SpawnTmuxFailed(i)
             \/ \E n \in Names, b \in {"tmux", "headless"}, p \in Pids :
                  SpawnLaunch(i, n, b, p)
         untouched == procs' = procs /\ rec' = rec /\ mesh' = mesh /\ sp' = sp
     IN /\ (spawnCall /\ Cardinality(stored) >= cap)
            => (ret' = Answer("spawn", "limit_reached", "none") /\ untouched)
        /\ (\E i \in SpawnIds : SpawnNameCollision(i))
            => (ret' = Answer("spawn", "name_collision", "none") /\ untouched)]_vars

\* C24 witness: a spawn was refused at the cap while the one allowed worker
\* is there.
SpawnRefusedAtCap ==
  /\ ret = Answer("spawn", "limit_reached", "none")
  /\ Cardinality({n \in Names : rec[n].st \notin {"none", "dead"}}) = cap
  /\ \A i \in SpawnIds : sp[i].pc = "idle"

\* C25: an assign call on an idle or joined record is taken up, the record
\* being idle from then on; on an assigned, spawning or done/dead record it
\* is answered already_assigned, still_spawning or not_running, no message is
\* sent and the record stays as it was.
AssignOnlyWhenIdle ==
  [][\A a \in AssignIds, n \in Names :
       (AssignReject(a, n) \/ AssignBegin(a, n)) =>
         LET st == rec[n].st IN
         IF st \in {"idle", "joined"}
         THEN asg'[a].pc # "idle" /\ asg'[a].name = n /\ rec'[n].st = "idle"
         ELSE /\ ret' = Answer("assign",
                               CASE st = "assigned" -> "already_assigned"
                                 [] st = "spawning" -> "still_spawning"
                                 [] st \in {"done", "dead"} -> "not_running"
                                 [] OTHER -> "not_found",
                               "none")
              /\ fx' = {}
              /\ rec' = rec /\ mesh' = mesh /\ asg' = asg]_vars

\* C25 witness: an assign to an agent that has a task was refused.
AssignRefusedWhenAssigned ==
  /\ ret = Answer("assign", "already_assigned", "none")
  /\ fx = {}
  /\ \E n \in Names : rec[n].st = "assigned"

\* C27: whenever a record is removed, the handler or sweep that removed it
\* has appended a history event about that agent.
RemovalIsLogged ==
  [][\A n \in Names :
       (rec[n] # NoRec /\ rec'[n] = NoRec)
         => \E kind \in {"history:reap", "history:kill", "history:spawn"} :
              <<kind, n>> \in fx']_vars

\* C23: agents.killall has at most one kill sequence in progress, and it
\* enters the sequence of a target only when none of its sequences is in
\* progress: the one before has ended with its waits, signals and cleanup.
KillallOneAtATime ==
  /\ [](Cardinality({j \in KillallIds : kl[j].pc # "idle"}) <= 1)
  /\ [][\A j \in KillallIds :
          (kl[j].pc = "idle" /\ kl'[j].pc # "idle")
            => /\ \A i \in KillallIds : kl[i].pc = "idle"
               /\ ka'.pc = "loop" /\ kl'[j].proc = -1]_vars

\* C23 witness: the second target's sequence is under way, the first target
\* having been killed and its record removed.
KillallAtSecondTarget ==
  /\ ka.pc = "loop" /\ ka.todo = <<>>
  /\ \E j \in KillallIds, m \in Names :
       /\ kl[j].pc = "term_wait" /\ kl[j].name # m
       /\ rec[m] = NoRec
       /\ <<"history:kill", m>> \in fx

\* C26: every spawn, kill and kill-all invocation that has begun returns,
\* whether or not the worker ever registers or exits.
EveryInvocationReturns ==
  /\ \A i \in SpawnIds : (sp[i].pc # "idle") ~> (sp[i].pc = "idle")
  /\ \A k \in KillIds \cup KillallIds : (kl[k].pc # "idle") ~> (kl[k].pc = "idle")
  /\ (ka.pc # "idle") ~> (ka.pc = "idle")

\* C26 witness: a target of killall outlived SHUTDOWN and SIGTERM, was sent
\* SIGKILL, and its killOne returned.
KillallTargetOutlivedSigterm ==
  /\ ret = Answer("killall", "killed", "term_kill")
  /\ \A k \in KillallIds : kl[k].pc = "idle"

\* C29: opening the memory store when the persisted schema metadata (version
\* or vector dimensionality) differs from the active configuration fails with
\* the error that tells the caller to reset: the store is not opened for use,
\* the directory is not backed up and reinitialized, and nothing is changed.
SchemaMismatchIsHardError ==
  (/\ boot.pc # "none"
   /\ boot.env.enabled /\ boot.env.runtime
   /\ boot.disk0.dir /\ boot.disk0.meta = "mismatch")
    => (/\ boot.threw /\ ~boot.active /\ ~boot.collection
        /\ boot.backups = 0 /\ boot.disk = boot.disk0)

\* C29, amended: the same, when the collection itself opens.
SchemaMismatchIsHardErrorOnceOpened ==
  (/\ boot.pc # "none"
   /\ boot.env.enabled /\ boot.env.runtime /\ boot.env.open = "ok"
   /\ boot.disk0.dir /\ boot.disk0.meta = "mismatch")
    => (/\ boot.threw /\ ~boot.active /\ ~boot.collection
        /\ boot.backups = 0 /\ boot.disk = boot.disk0
        /\ (boot.pc = "called" => boot.answer = "no_store"))

SchemaMismatchThrown ==
  /\ boot.pc = "called" /\ boot.threw /\ boot.answer = "no_store"
  /\ boot.env.open = "ok" /\ boot.disk0.dim = "configured"
  /\ boot.disk0.meta = "mismatch" /\ boot.disk0.docs = "some"

MemoryFailureChangesNothing ==
  [][\A m \in MemoryOutcomes \ {"works"} :
       /\ \A i \in SpawnIds : SpawnReturnOk(i, m) => SpawnReturnOk(i, "disabled")
       /\ \A a \in AssignIds, t \in Tasks :
            AssignDelivered(a, t, m) => AssignDelivered(a, t, "disabled")
       /\ \A d \in DoneIds :
            /\ DoneToIdle(d, m) => DoneToIdle(d, "disabled")
            /\ DoneSleep(d, m) => DoneSleep(d, "disabled")
       /\ \A k \in KillIds :
            KillMarkDone(k, m)
              => /\ KillMarkDone(k, "disabled")
                 /\ kl'[k].pc = "grace"
                 /\ <<"msg:shutdown", kl[k].name>> \in kl'[k].fx]_vars

\* C22, its case: agents.kill of an assigned agent waited for the summary,
\* no summary was stored, and the kill marked the record done, sent
\* SHUTDOWN and waits for the process to exit.
KillWentOnWithoutSummary ==
  \E k \in KillIds :
    /\ kl[k].pc = "grace" /\ kl[k].proc = 0
    /\ rec[kl[k].name] # NoRec
    /\ rec[kl[k].name].st = "done" /\ rec[kl[k].name].task # Null
    /\ kl[k].fx = {<<"msg:shutdown", kl[k].name>>}

\* C40: recall returns a prefix of the ranked list: it stops at the first
\* entry that would take the running total over the token budget, so no entry
\* ranked below one left out for the budget is returned.
RecallReturnsRankedPrefix ==
  [][\A ranked \in Rankings(coll.docs, autoInjectTopK), maxTokens \in 1..3 :
       CollectionRecall(ranked, maxTokens)
         => /\ Len(coll'.results) <= Len(ranked)
            /\ \A i \in DOMAIN coll'.results : coll'.results[i].id = ranked[i].id]_vars

\* C39: in every reachable state at most maxSpawnedAgents records have a
\* status other than dead.
ActiveRecordsWithinCap ==
  Cardinality({n \in Names : rec[n] # NoRec /\ rec[n].st # "dead"}) <= cap

\* C35: a record that is gone is created again only by a spawn, and a record
\* stored as done is never rewritten as assigned or idle: an assign or done
\* that was in flight during a kill, reap or exit cleanup writes nothing back.
OnlySpawnCreatesRecord ==
  [][\A n \in Names :
       /\ rec[n] = NoRec /\ rec'[n] # NoRec
            => \E i \in SpawnIds, b \in {"tmux", "headless"}, p \in Pids :
                 SpawnLaunch(i, n, b, p)
       /\ rec[n].st = "done" => rec'[n].st \notin {"assigned", "idle"}]_vars

\* C38: an assign reports `assigned` and delivers its message only to an agent
\* that holds no task at that moment: of two assigns that overlap on the same
\* idle agent at most one succeeds.
OneAssignPerIdlePeriod ==
  [][\A a \in DOMAIN asg, t \in Tasks, m \in MemoryOutcomes :
       AssignDelivered(a, t, m) /\ ret'.res = "assigned"
         => rec[asg[a].name].st # "assigned"]_vars

\* C36: a kill never comes back as a successful no-op while the worker's
\* process is alive and its record is still spawning or joined.
KillEndsStartingAgent ==
  [][\A k \in KillIds :
       KillGraceAbort(k)
         => ~(/\ isPidAlive(kl[k].pid)
              /\ rec[kl[k].name].pid = kl[k].pid
              /\ rec[kl[k].name].st \in {"spawning", "joined"})]_vars

\* C37: the exit notification of an earlier headless process leaves a later
\* agent of the same name alone: a close event handled while the record's own
\* process is alive changes nothing in the record store.
OldExitSparesRespawn ==
  [][\A n \in Names :
       (/\ HeadlessClose(n)
        /\ rec[n] # NoRec /\ rec[n].st # "dead"
        /\ isPidAlive(rec[n].pid) /\ procs[rec[n].pid].nm = n)
         => rec'[n] = rec[n]]_vars

\* C31: two agents never both consider themselves registered under the same
\* name.
NameHasOneOwner ==
  \A p, q \in DOMAIN mr.ag :
    p # q => ~(/\ mr.ag[p].registered /\ mr.ag[q].registered
               /\ mr.ag[p].name = mr.ag[q].name)

\* C32: a message file is removed from the inbox only after the message was
\* delivered successfully; a message whose delivery failed keeps its file.
RemovedOnlyAfterDelivery ==
  \A m \in 1..ib.sent : m \notin ib.files => m \in ib.delivered

WatcherRestartsBounded ==
  /\ [](wt.timer # 0 => /\ wt.retries \in 1..(MAX_WATCHER_RETRIES - 1)
                        /\ wt.delay = 1000 * 2^(wt.retries - 1)
                        /\ wt.delay <= 30000
                        /\ wt.timer <= wt.clock + wt.delay)
  /\ [](/\ wt.retries <= MAX_WATCHER_RETRIES
        /\ wt.retries = MAX_WATCHER_RETRIES => (wt.timer = 0 /\ ~wt.watcher))
  /\ [][(wt.retries = MAX_WATCHER_RETRIES
          /\ (wt'.retries # wt.retries \/ wt'.timer # 0 \/ wt'.watcher))
         => wt'.by = "recover"]_vars

\* C33 as it holds: the same, with a successful rename as the other handler
\* that resets the count of a dead watcher and starts it again.
WatcherRestartsBoundedOrRenamed ==
  /\ [](wt.timer # 0 => /\ wt.retries \in 1..(MAX_WATCHER_RETRIES - 1)
                        /\ wt.delay = 1000 * 2^(wt.retries - 1)
                        /\ wt.delay <= 30000
                        /\ wt.timer <= wt.clock + wt.delay)
  /\ [](/\ wt.retries <= MAX_WATCHER_RETRIES
        /\ wt.retries = MAX_WATCHER_RETRIES => (wt.timer = 0 /\ ~wt.watcher))
  /\ [][(wt.retries = MAX_WATCHER_RETRIES
          /\ (wt'.retries # wt.retries \/ wt'.timer # 0 \/ wt'.watcher))
         => /\ wt'.by \in {"recover", "rename"}
            /\ wt'.revived
            /\ \/ wt'.watcher /\ wt'.retries = 0
               \/ wt'.timer # 0 /\ wt'.retries = 1]_vars

\* A turn end found the watcher dead after five failures and started it.
DeadWatcherRecovered == wt.revived /\ wt.by = "recover" /\ wt.watcher

====
